---- MODULE Spec2Model ----
(***************************************************************************)
(* SportsbooksCRM: the document store (accounts, entries, users), the      *)
(* player's AccountEntry page (both versions in the repository), the       *)
(* PlayerDashboard entry editor and the admin Accounts and Players pages.  *)
(*                                                                         *)
(* Every asynchronous handler is one action: its reads, its writes in      *)
(* source order, the state it sets and the React effects that run on the   *)
(* render that follows.  A remote write may fail; the handler's catch      *)
(* block then runs and everything written before the failure stays.        *)
(***************************************************************************)
EXTENDS Integers, Sequences, FiniteSets, TLC

VARIABLES
    accounts,       \* store: collection 'accounts', id -> document
    entries,        \* store: collection 'entries', id -> document
    nextId,         \* store: next auto-generated entry id
    authUsers,      \* auth service: e-mails with an identity
    users,          \* store: collection 'users' (e-mails with a document)
    route,          \* player session: page that is mounted
    account,        \* AccountEntry: useState account
    currentEntry,   \* AccountEntry: useState currentEntry
    entriesView,    \* AccountEntry / PlayerDashboard: useState entries
    editingEntry,   \* AccountEntry / PlayerDashboard: useState editingEntry
    adminAccounts,  \* Accounts: useState accounts
    editingAccount, \* Accounts: useState editingAccount
    newAccount,     \* Accounts: useState newAccount, the form of the Add modal
    session,        \* useAuth(): currentUser and userData
    guarded,        \* ProtectedRoute: its props and what it rendered last
    playerAccounts, \* PlayerDashboard: useState accounts
    agents,         \* store: collection 'agents', id -> document
    adminDash,      \* admin Dashboard: dateFilter, loading, stats, agentStats
    inflight,       \* admin Dashboard: the fetchStats calls not yet returned
    accountsList,   \* Accounts: searchTerm, filter, agentFilter, filteredAccounts
    lastOp,         \* history: the handler that ran last
    lastFail,       \* history: a remote write of that handler failed
    lastWrites,     \* history: documents it wrote, as <<collection, id>>
    effectRan,      \* history: the profit/loss effect ran on the last render
    edits,          \* history: balance fields typed so far
    fetchLog,       \* history: the fetchAccounts runs since another handler ran
    writeOrder,     \* history: entry ids, least recently written first
    parked          \* the player's other browser session: its page state

vars == <<accounts, entries, nextId, authUsers, users, route, account,
          currentEntry, entriesView, editingEntry, adminAccounts,
          editingAccount, lastOp, lastFail, lastWrites, effectRan, edits, fetchLog,
          writeOrder, parked, newAccount, session, guarded, playerAccounts,
          agents, adminDash, inflight, accountsList>>

storeVars == <<accounts, entries, nextId, authUsers, users>>
playerVars == <<route, account, currentEntry, entriesView, editingEntry,
                playerAccounts>>
adminVars == <<adminAccounts, editingAccount>>

(***************************************************************************)
(* Bounds of the model.                                                    *)
(***************************************************************************)
MaxEntries == 2     \* entry documents ever created
MaxEdits == 2       \* balance fields typed in one run
MaxVal == 1         \* largest balance typed or stored
MaxRuns == 2        \* fetchAccounts runs in succession
MaxAccounts == 1    \* account documents created through the Add modal
MaxInFlight == 2    \* fetchStats calls in flight at once
MaxTerm == 2        \* characters of the search term

(***************************************************************************)
(* JavaScript values: numbers, strings, undefined and NaN.                 *)
(***************************************************************************)
Num(n) == [k |-> "num", n |-> n, s |-> ""]
Str(s) == [k |-> "str", n |-> 0, s |-> s]
Undef == [k |-> "undef", n |-> 0, s |-> ""]
NaN == [k |-> "nan", n |-> 0, s |-> ""]

\* the decimal numerals a number input can hold in this model
Numeral(n) == CASE n = 0 -> "0" [] n = 1 -> "1" [] n = 2 -> "2" [] n = 3 -> "3"
                [] OTHER -> "9"
Numerals == {Numeral(n) : n \in 0..3}
ValueOfNumeral(s) == CHOOSE n \in 0..3 : Numeral(n) = s

\* Number(v)
ToNumber(v) ==
    CASE v.k = "num" -> v
      [] v.k = "str" -> IF v.s = "" THEN Num(0)
                        ELSE IF v.s \in Numerals THEN Num(ValueOfNumeral(v.s))
                        ELSE NaN
      [] OTHER -> NaN

\* isNaN(v)
IsNaN(v) == v.k = "nan"

\* v is truthy
Truthy(v) ==
    CASE v.k = "num" -> v.n # 0
      [] v.k = "str" -> v.s # ""
      [] OTHER -> FALSE

\* v || 0
OrZero(v) == IF Truthy(v) THEN v ELSE Num(0)

\* a - b
Sub(a, b) ==
    LET x == ToNumber(a)
        y == ToNumber(b)
    IN  IF IsNaN(x) \/ IsNaN(y) THEN NaN ELSE Num(x.n - y.n)

\* a + b for a number a; a blank string b leaves the numeral of a, which the
\* subtraction that follows in every use converts back to a
Add(a, b) ==
    LET x == ToNumber(a)
        y == ToNumber(b)
    IN  IF IsNaN(x) \/ IsNaN(y) THEN NaN ELSE Num(x.n + y.n)

\* a !== b
StrictNeq(a, b) == IsNaN(a) \/ IsNaN(b) \/ a # b

\* parseFloat(text) || 0
ParseFloatOrZero(text) == OrZero(ToNumber(Str(text)))

(***************************************************************************)
(* Fixed identities.                                                       *)
(***************************************************************************)
AccountIds == {"a1", "a2"}
Uid == "p1"
RouteId == "a1"
Today == Str("2024-01-02")
Yesterday == Str("2024-01-01")
Emails == {"x@crm", "y@crm"}
StoredStatuses == {"active", "inactive", "unused", "locked", ""}
BalanceFields == {"startingBalance", "endingBalance", "refillAmount", "withdrawal"}

Dates == {Today, Yesterday}
Null == [null |-> TRUE]

(***************************************************************************)
(* The store's queries.                                                    *)
(***************************************************************************)
\* {id: doc.id, ...doc.data()} of the entries with this accountId and playerUid
EntriesOfAccount(ents, acc, uid) ==
    LET ids == {i \in DOMAIN ents : ents[i].accountId = acc /\ ents[i].playerUid = uid}
    IN  [i \in ids |-> ents[i]]

\* {id: doc.id, ...doc.data()} of the entries with this playerUid
EntriesOfPlayer(ents, uid) ==
    LET ids == {i \in DOMAIN ents : ents[i].playerUid = uid}
    IN  [i \in ids |-> ents[i]]

\* the accounts assigned to this player
AccountsOfPlayer(accs, uid) == {a \in DOMAIN accs : accs[a].assignedToPlayerUid = uid}

\* accountData.status || 'active'
StatusOrActive(doc) == IF doc.status = "" THEN "active" ELSE doc.status

\* accountData.type || 'pph'
TypeOrPph(doc) == IF doc.type = "" THEN "pph" ELSE doc.type

\* the agents collection under the player pages; no handler of the pages
\* modelled writes the collection
Agents == [g \in {"g1"} |->
             [name |-> "Agent One", commissionPercentage |-> Num(50),
              flatCommission |-> Num(1)]]
AgentIds == {"g1", "g2"}

\* AccountEntry: agentDoc.exists() ? agentDoc.data().name : 'Unknown Agent'
AgentName(doc) ==
    IF doc.agentId \in DOMAIN agents THEN agents[doc.agentId].name
    ELSE "Unknown Agent"

(***************************************************************************)
(* AccountEntry: state and effects.                                        *)
(***************************************************************************)
\* useState<Entry>: the form before anything is loaded
InitialEntry ==
    [id |-> 0, accountId |-> RouteId, playerUid |-> Uid, date |-> Today,
     startingBalance |-> Num(0), endingBalance |-> Num(0),
     refillAmount |-> Num(0), withdrawal |-> Num(0), profitLoss |-> Num(0),
     accountStatus |-> Str("active")]

\* the refill added instead of subtracted
ProfitLossRefillAdded(e) ==
    Add(Add(Sub(OrZero(e.endingBalance), OrZero(e.startingBalance)),
            OrZero(e.withdrawal)),
        OrZero(e.refillAmount))

\* newer page: (ending || 0) - (starting || 0) + (withdrawal || 0) - (refill || 0)
ProfitLossGuarded(e) ==
    Sub(Add(Sub(OrZero(e.endingBalance), OrZero(e.startingBalance)),
            OrZero(e.withdrawal)),
        OrZero(e.refillAmount))

\* older page and PlayerDashboard: ending - starting + withdrawal - refill
ProfitLossPlain(e) ==
    Sub(Add(Sub(e.endingBalance, e.startingBalance), e.withdrawal), e.refillAmount)

ProfitLossOf(ver, e) == IF ver = "entryV1" THEN ProfitLossGuarded(e) ELSE ProfitLossPlain(e)

\* the effect's dependency array, undefined for a null editingEntry
Deps(e) ==
    IF e = Null THEN [f \in BalanceFields |-> Undef] ELSE [f \in BalanceFields |-> e[f]]

\* the effect runs on a render whose dependencies differ from the last render's
EffectRuns(prev, next) == Deps(prev) # Deps(next)

\* body of the profit/loss effect
ProfitLossEffect(ver, e) ==
    IF e = Null THEN e
    ELSE LET profitLoss == ProfitLossOf(ver, e)
         IN  IF StrictNeq(profitLoss, e.profitLoss)
             THEN [e EXCEPT !.profitLoss = profitLoss]
             ELSE e

\* state after the render that follows setState(next)
AfterRender(ver, prev, next) ==
    IF EffectRuns(prev, next) THEN ProfitLossEffect(ver, next) ELSE next

\* the value the newer page's handleInputChange / handleEditInputChange stores
CoercedInput(old, text) ==
    IF text = "" THEN Str("")
    ELSE IF IsNaN(ToNumber(Str(text))) THEN old
    ELSE ToNumber(Str(text))

\* value shown by a number input of the newer page: '' for 0
ShownBlank(v) == v = Num(0) \/ v = Str("") \/ v.k \in {"undef", "nan"}

\* the browser lets the form submit: every required input holds a value
FormValid(ver, e) ==
    /\ e.date # Str("")
    /\ ver = "entryV1" => ~ShownBlank(e.startingBalance) /\ ~ShownBlank(e.endingBalance)

\* entryToSave of handleSubmit / handleEditEntry
EntryToSave(ver, e) ==
    IF ver = "entryV1"
    THEN [e EXCEPT !.startingBalance = OrZero(e.startingBalance),
                   !.endingBalance = OrZero(e.endingBalance),
                   !.refillAmount = OrZero(e.refillAmount),
                   !.withdrawal = OrZero(e.withdrawal)]
    ELSE e

EntryPages == {"entryV0", "entryV1"}
NoEntries == << >>
InputTexts == {""} \cup {Numeral(n) : n \in 0..MaxVal}
DateTexts == {"", Today.s, Yesterday.s}

\* the entry ids with id written last, or without it once it is deleted
Rewritten(order, id, ents) ==
    LET others == SelectSeq(order, LAMBDA x : x # id)
    IN  IF id \in DOMAIN ents THEN Append(others, id) ELSE others

\* what the handler that just ran did
Record(op, fail, writes) ==
    /\ lastOp' = op
    /\ lastFail' = fail
    /\ lastWrites' = writes
    /\ IF op = "fetchAccounts" THEN TRUE ELSE fetchLog' = << >>
    /\ UNCHANGED parked
    /\ IF op \in {"setNewAccount", "handleAddAccount"} THEN TRUE
       ELSE UNCHANGED newAccount
    /\ IF op \in {"useAuth", "ProtectedRoute"} THEN TRUE
       ELSE UNCHANGED <<session, guarded>>
    /\ IF op \in {"mountDashboard", "setDateFilter", "fetchStats"} THEN TRUE
       ELSE UNCHANGED <<adminDash, inflight>>
    /\ IF op \in {"setSearchTerm", "setFilter", "setAgentFilter"} THEN TRUE
       ELSE UNCHANGED accountsList
    /\ UNCHANGED agents
    /\ writeOrder' =
         LET ids == {w[2] : w \in {x \in writes : x[1] = "entries"}}
         IN  IF ids = {} THEN writeOrder
             ELSE Rewritten(writeOrder, CHOOSE i \in ids : TRUE, entries')

(***************************************************************************)
(* AccountEntry: fetchAccountData, run on mount and after a history edit   *)
(* or delete.  The entry for today is the first match of find(); with      *)
(* several entries of today's date the query's order decides, so any of    *)
(* them may be the one.                                                    *)
(***************************************************************************)
FetchAccountData(ver, prev, prevAccount, prevView, accs, ents) ==
    IF RouteId \notin DOMAIN accs
    THEN /\ account' = prevAccount
         /\ entriesView' = prevView
         /\ playerAccounts' = NoEntries
         /\ currentEntry' = prev
         /\ effectRan' = "none"
    ELSE LET accountData == accs[RouteId]
             entriesData == EntriesOfAccount(ents, RouteId, Uid)
             todays == {i \in DOMAIN entriesData : entriesData[i].date = Today}
             fresh == [prev EXCEPT
                         !.accountStatus = Str(StatusOrActive(accountData)),
                         !.startingBalance =
                             IF ver = "entryV1"
                             THEN IF accountData.type = "legal"
                                  THEN OrZero(accountData.depositAmount)
                                  ELSE Num(0)
                             ELSE @]
         IN  /\ account' = [id |-> RouteId,
                            type |-> TypeOrPph(accountData),
                            status |-> StatusOrActive(accountData),
                            depositAmount |-> accountData.depositAmount,
                            agentName |-> AgentName(accountData)]
             /\ entriesView' = entriesData
             /\ playerAccounts' = NoEntries
             /\ \E next \in (IF todays = {} THEN {fresh}
                             ELSE {entriesData[i] : i \in todays}) :
                    /\ currentEntry' = AfterRender(ver, prev, next)
                    /\ effectRan' = IF EffectRuns(prev, next) THEN "current" ELSE "none"

\* getDoc(doc(db, 'agents', agentId)) of PlayerDashboard.  The module's
\* import from firebase/firestore does not bring in getDoc, so the call
\* throws inside the inner try, whatever the collection holds.
DashboardAgentLookup(agentId) == "throws"

\* the list item PlayerDashboard builds for an account: the try branch when
\* the lookup returns, the catch branch when it throws
DashboardAccount(a, doc) ==
    LET found == DashboardAgentLookup(doc.agentId)
    IN  [id |-> a, type |-> TypeOrPph(doc), status |-> StatusOrActive(doc),
         depositAmount |-> doc.depositAmount,
         agentName |-> IF found = "exists" THEN agents[doc.agentId].name
                       ELSE "Unknown Agent"]

\* PlayerDashboard: fetchPlayerData
FetchPlayerData(prevView, accs, ents) ==
    /\ playerAccounts' = [a \in AccountsOfPlayer(accs, Uid) |->
                            DashboardAccount(a, accs[a])]
    /\ entriesView' = IF AccountsOfPlayer(accs, Uid) # {}
                      THEN EntriesOfPlayer(ents, Uid)
                      ELSE prevView

\* the player opens /player/account/a1: mount, then fetchAccountData
OpenEntryPage(ver) ==
    /\ route \in {"none", "dashboard"}
    /\ route' = ver
    /\ editingEntry' = Null
    /\ FetchAccountData(ver, InitialEntry, Null, NoEntries, accounts, entries)
    /\ Record("fetchAccountData", FALSE, {})
    /\ UNCHANGED <<storeVars, adminVars, edits>>

\* the player opens /player/dashboard: mount, then fetchPlayerData
OpenDashboard ==
    /\ route = "none"
    /\ route' = "dashboard"
    /\ account' = Null
    /\ currentEntry' = InitialEntry
    /\ editingEntry' = Null
    /\ FetchPlayerData(NoEntries, accounts, entries)
    /\ effectRan' = "none"
    /\ Record("fetchPlayerData", FALSE, {})
    /\ UNCHANGED <<storeVars, adminVars, edits>>

\* navigate('/player/dashboard'): AccountEntry unmounts, PlayerDashboard mounts
NavigateDashboard(accs, ents) ==
    /\ route' = "dashboard"
    /\ account' = Null
    /\ currentEntry' = InitialEntry
    /\ editingEntry' = Null
    /\ FetchPlayerData(NoEntries, accs, ents)
    /\ effectRan' = "none"

(***************************************************************************)
(* AccountEntry: the form's inputs.                                        *)
(***************************************************************************)
\* handleInputChange as each page defines it, for the text of an input event
InputValue(ver, old, text, isNumberInput) ==
    IF ver = "entryV1" THEN CoercedInput(old, text)
    ELSE IF isNumberInput THEN ParseFloatOrZero(text)
    ELSE Str(text)

\* name of a handleInputChange call, for the history
InputOp(field) ==
    CASE field = "date" -> "handleInputChange(date)"
      [] field = "accountStatus" -> "handleInputChange(accountStatus)"
      [] OTHER -> "handleInputChange(balance)"

SetCurrentEntry(field, next) ==
    /\ currentEntry' = AfterRender(route, currentEntry, next)
    /\ effectRan' = IF EffectRuns(currentEntry, next) THEN "current" ELSE "none"
    /\ Record(InputOp(field), FALSE, {})
    /\ UNCHANGED <<storeVars, adminVars, route, account, entriesView, editingEntry,
                   playerAccounts>>

\* a number input of the form
TypeBalance(field, text) ==
    /\ route \in EntryPages /\ account # Null
    /\ edits < MaxEdits
    /\ edits' = edits + 1
    /\ SetCurrentEntry(field, [currentEntry EXCEPT
                                 ![field] = InputValue(route, @, text, TRUE)])

\* the date input of the form
TypeDate(text) ==
    /\ route \in EntryPages /\ account # Null
    /\ UNCHANGED edits
    /\ SetCurrentEntry("date", [currentEntry EXCEPT
                                  !.date = InputValue(route, @, text, FALSE)])

\* the Account Status toggle button
ToggleStatus ==
    /\ route \in EntryPages /\ account # Null
    /\ UNCHANGED edits
    /\ LET text == IF currentEntry.accountStatus = Str("active")
                   THEN "inactive" ELSE "active"
       IN  SetCurrentEntry("accountStatus",
                           [currentEntry EXCEPT
                              !.accountStatus = InputValue(route, @, text, FALSE)])

(***************************************************************************)
(* AccountEntry: handleSubmit.  fail names the remote write that fails:    *)
(* "none", "entry" (updateDoc / addDoc of the entry) or "account" (the     *)
(* status update that follows).  updateDoc of a missing document fails.    *)
(***************************************************************************)
\* the entry of the form's account and date looked up before the write
TargetIdSearched(e, ents) ==
    LET same == {i \in DOMAIN ents :
                   ents[i].accountId = e.accountId /\ ents[i].date = e.date}
    IN  IF e.id # 0 THEN e.id
        ELSE IF same # {} THEN CHOOSE i \in same : TRUE
        ELSE 0

\* if (currentEntry.id) updateDoc(... currentEntry.id) else addDoc: the id
\* of the document handleSubmit updates, 0 when it creates one
TargetId(e, ents) == e.id

\* navigate placed after the try block: runs whether or not a write threw
AfterSubmitAlwaysNavigates(ok) ==
    NavigateDashboard(accounts', entries')

\* navigate at the end of the try block: skipped when a write threw
AfterSubmit(ok) ==
    IF ok
    THEN NavigateDashboard(accounts', entries')
    ELSE /\ UNCHANGED playerVars
         /\ effectRan' = "none"

handleSubmit(fail) ==
    /\ route \in EntryPages /\ account # Null
    /\ FormValid(route, currentEntry)
    /\ LET entryToSave == EntryToSave(route, currentEntry)
           isUpdate == TargetId(currentEntry, entries) # 0
           id == IF isUpdate THEN TargetId(currentEntry, entries) ELSE nextId
           entryOk == fail # "entry" /\ (isUpdate => id \in DOMAIN entries)
           statusDiffers == StrictNeq(currentEntry.accountStatus, Str(account.status))
           accountTried == entryOk /\ statusDiffers
           accountOk == fail # "account" /\ RouteId \in DOMAIN accounts
           ok == entryOk /\ (statusDiffers => accountOk)
       IN  /\ ~isUpdate => nextId <= MaxEntries
           /\ fail = "account" => accountTried
           /\ entries' = IF entryOk
                         THEN (id :> [entryToSave EXCEPT !.id = id]) @@ entries
                         ELSE entries
           /\ nextId' = IF entryOk /\ ~isUpdate THEN nextId + 1 ELSE nextId
           /\ accounts' = IF accountTried /\ accountOk
                          THEN [accounts EXCEPT
                                  ![RouteId].status = currentEntry.accountStatus.s]
                          ELSE accounts
           /\ Record("handleSubmit", ~ok,
                     (IF entryOk THEN {<<"entries", id>>} ELSE {})
                       \cup (IF accountTried /\ accountOk
                             THEN {<<"accounts", RouteId>>} ELSE {}))
           /\ AfterSubmit(ok)
    /\ UNCHANGED <<authUsers, users, adminVars, edits>>

(***************************************************************************)
(* Entry history of AccountEntry (newer page) and of PlayerDashboard:      *)
(* Edit, the edit form's inputs, Cancel, Save (handleEditEntry) and        *)
(* Delete (handleDeleteEntry).                                             *)
(***************************************************************************)
HistoryPages == {"entryV1", "dashboard"}

\* only the newer AccountEntry has a profit/loss effect on editingEntry
SetEditingEntry(next) ==
    /\ editingEntry' = IF route = "entryV1"
                       THEN AfterRender(route, editingEntry, next)
                       ELSE next
    /\ effectRan' = IF route = "entryV1" /\ EffectRuns(editingEntry, next)
                    THEN "editing" ELSE "none"
    /\ UNCHANGED <<storeVars, adminVars, route, account, entriesView, currentEntry,
                   playerAccounts>>

\* Edit button of a listed entry: setEditingEntry(entry)
ClickEditEntry(i) ==
    /\ route \in HistoryPages
    /\ route = "entryV1" => account # Null
    /\ i \in DOMAIN entriesView
    /\ IF editingEntry = Null THEN TRUE ELSE editingEntry.id # i
    /\ SetEditingEntry(entriesView[i])
    /\ Record("setEditingEntry", FALSE, {})
    /\ UNCHANGED edits

\* Cancel button: setEditingEntry(null)
CancelEdit ==
    /\ route \in HistoryPages
    /\ editingEntry # Null
    /\ SetEditingEntry(Null)
    /\ Record("setEditingEntry", FALSE, {})
    /\ UNCHANGED edits

\* handleEditInputChange as each page defines it
EditInputValue(page, old, text, isNumberInput) ==
    IF page = "entryV1" THEN CoercedInput(old, text)
    ELSE IF isNumberInput THEN ParseFloatOrZero(text)
    ELSE Str(text)

\* readOnly of the dashboard's Starting Balance edit input: the entry's
\* account, looked up in the dashboard's list, is a legal one
ReadOnly(page, field, e, listed) ==
    /\ page = "dashboard"
    /\ field = "startingBalance"
    /\ e.accountId \in DOMAIN listed
    /\ listed[e.accountId].type = "legal"

\* a number input of the edit form
EditTypeBalance(field, text) ==
    /\ route \in HistoryPages
    /\ editingEntry # Null
    /\ ~ReadOnly(route, field, editingEntry, playerAccounts)
    /\ edits < MaxEdits
    /\ edits' = edits + 1
    /\ SetEditingEntry([editingEntry EXCEPT
                          ![field] = EditInputValue(route, @, text, TRUE)])
    /\ Record("handleEditInputChange", FALSE, {})

\* the date input of the edit form
EditTypeDate(text) ==
    /\ route \in HistoryPages
    /\ editingEntry # Null
    /\ SetEditingEntry([editingEntry EXCEPT
                          !.date = EditInputValue(route, @, text, FALSE)])
    /\ Record("handleEditInputChange", FALSE, {})
    /\ UNCHANGED edits

\* the document handleEditEntry writes
EditedEntryToSave(page, e) ==
    IF page = "entryV1" THEN EntryToSave(page, e)
    ELSE [e EXCEPT !.profitLoss = ProfitLossPlain(e)]

\* the refetch that follows a successful edit or delete
Refetch(accs, ents) ==
    IF route = "entryV1"
    THEN FetchAccountData(route, currentEntry, account, entriesView, accs, ents)
    ELSE /\ FetchPlayerData(entriesView, accs, ents)
         /\ UNCHANGED <<account, currentEntry>>
         /\ effectRan' = "none"

\* Save button of the edit form
handleEditEntry(fail) ==
    /\ route \in HistoryPages
    /\ editingEntry # Null
    /\ LET id == editingEntry.id
           ok == ~fail /\ id \in DOMAIN entries
       IN  /\ entries' = IF ok
                         THEN [entries EXCEPT
                                 ![id] = EditedEntryToSave(route, editingEntry)]
                         ELSE entries
           /\ Record("handleEditEntry", ~ok,
                     IF ok THEN {<<"entries", id>>} ELSE {})
           /\ IF ok
              THEN /\ editingEntry' = Null
                   /\ Refetch(accounts, entries')
              ELSE /\ UNCHANGED <<account, currentEntry, entriesView, editingEntry,
                                  playerAccounts>>
                   /\ effectRan' = "none"
    /\ UNCHANGED <<accounts, nextId, authUsers, users, adminVars, route, edits>>

\* Delete button of a listed entry, confirmed
handleDeleteEntry(i, fail) ==
    /\ route \in HistoryPages
    /\ route = "entryV1" => account # Null
    /\ i \in DOMAIN entriesView
    /\ entries' = IF fail THEN entries
                  ELSE [j \in DOMAIN entries \ {i} |-> entries[j]]
    /\ Record("handleDeleteEntry", fail, IF fail THEN {} ELSE {<<"entries", i>>})
    /\ IF ~fail
       THEN Refetch(accounts, entries')
       ELSE /\ UNCHANGED <<account, currentEntry, entriesView, playerAccounts>>
            /\ effectRan' = "none"
    /\ UNCHANGED <<accounts, nextId, authUsers, users, adminVars, route,
                   editingEntry, edits>>

(***************************************************************************)
(* Players (admin): handleAddPlayer creates the auth identity, then the    *)
(* user document.  fail is "none", "auth" or "doc".                        *)
(***************************************************************************)
handleAddPlayer(email, fail) ==
    LET authOk == fail # "auth" /\ email \notin authUsers
        docOk == fail # "doc"
    IN  /\ fail = "doc" => authOk
        /\ authUsers' = IF authOk THEN authUsers \cup {email} ELSE authUsers
        /\ users' = IF authOk /\ docOk THEN users \cup {email} ELSE users
        /\ Record("handleAddPlayer", ~(authOk /\ docOk),
                  (IF authOk THEN {<<"auth", email>>} ELSE {})
                    \cup (IF authOk /\ docOk THEN {<<"users", email>>} ELSE {}))
        /\ effectRan' = "none"
        /\ UNCHANGED <<accounts, entries, nextId, playerVars, adminVars, edits>>

\* Players (admin): handleDeletePlayer, confirmed: deleteDoc of the user
\* document, then fetchPlayers, which only reads.  The auth identity stays.
handleDeletePlayer(email, fail) ==
    /\ email \in users
    /\ users' = IF fail THEN users ELSE users \ {email}
    /\ Record("handleDeletePlayer", fail,
              IF fail THEN {} ELSE {<<"users", email>>})
    /\ effectRan' = "none"
    /\ UNCHANGED <<accounts, entries, nextId, authUsers, playerVars, adminVars, edits>>

(***************************************************************************)
(* Accounts (admin): fetchAccounts.  Every account is projected by its own *)
(* async callback under Promise.all; failing is the set of accounts whose  *)
(* correcting write fails.  The other callbacks' writes still land, but    *)
(* the rejected Promise.all skips setAccounts.                             *)
(***************************************************************************)
SelectableStatuses == {"active", "inactive", "unused", "locked"}

\* the fields a document gets for either account type
PphFields == {"username", "websiteURL", "password", "deal", "ip"}
LegalFields == {"name", "sharePercentage", "depositAmount"}
VariantFields(type) == IF type = "legal" THEN LegalFields ELSE PphFields

\* an account document as handleAddAccount writes it; fields is the set of
\* type-specific fields the document holds
AccountDoc(type, status, uid, deposit) ==
    [type |-> type, status |-> status, assignedToPlayerUid |-> uid,
     depositAmount |-> deposit, fields |-> VariantFields(type),
     agentId |-> "g1"]

\* accountData.status || 'unused'
StatusOrUnused(doc) == IF doc.status = "" THEN "unused" ELSE doc.status

\* entriesSnapshot.size of the query on accountId
EntryCount(ents, a) == Cardinality({i \in DOMAIN ents : ents[i].accountId = a})

\* 'unused' forced only when both the entries and the player are missing
EffectiveStatusNeedsBoth(doc, size) ==
    IF size = 0 /\ doc.assignedToPlayerUid = "" THEN "unused"
    ELSE IF StatusOrUnused(doc) = "unused" THEN "active"
    ELSE StatusOrUnused(doc)

\* the status fetchAccounts lists for an account
EffectiveStatus(doc, size) ==
    IF size = 0 \/ doc.assignedToPlayerUid = "" THEN "unused"
    ELSE IF StatusOrUnused(doc) = "unused" THEN "active"
    ELSE StatusOrUnused(doc)

\* the correcting updateDoc issued without looking at the stored status
NeedsCorrectionAnyStatus(doc, size) ==
    ~(size = 0 \/ doc.assignedToPlayerUid = "")

\* the account gets the correcting updateDoc
NeedsCorrection(doc, size) ==
    /\ ~(size = 0 \/ doc.assignedToPlayerUid = "")
    /\ StatusOrUnused(doc) = "unused"

\* every account stored as 'unused' is written, entries or not
CorrectedEveryUnused(accs, ents) ==
    {a \in DOMAIN accs : StatusOrUnused(accs[a]) = "unused"}

\* the accounts fetchAccounts writes to, status 'active'
Corrected(accs, ents) ==
    {a \in DOMAIN accs : NeedsCorrection(accs[a], EntryCount(ents, a))}

\* the list item built for an account: {id, ...accountData} and the status
ListItem(a, doc, size) ==
    [id |-> a, type |-> TypeOrPph(doc), status |-> EffectiveStatus(doc, size),
     assignedToPlayerUid |-> doc.assignedToPlayerUid,
     depositAmount |-> doc.depositAmount, fields |-> doc.fields]

\* the projection without the correcting updateDoc
FetchAccountsReadOnly(accs, ents, failing) ==
    /\ failing = {}
    /\ accounts' = accs
    /\ adminAccounts' = [a \in DOMAIN accs |-> ListItem(a, accs[a], EntryCount(ents, a))]

\* fetchAccounts on the store (accs, ents), as part of the handler op
FetchAccounts(accs, ents, failing) ==
    LET written == Corrected(accs, ents) \ failing
    IN  /\ failing \subseteq Corrected(accs, ents)
        /\ accounts' = [a \in DOMAIN accs |->
                          IF a \in written THEN [accs[a] EXCEPT !.status = "active"]
                          ELSE accs[a]]
        /\ adminAccounts' =
             IF failing = {}
             THEN [a \in DOMAIN accs |-> ListItem(a, accs[a], EntryCount(ents, a))]
             ELSE adminAccounts

\* useState newAccount: the empty form of the Add modal
EmptyNewAccount ==
    [type |-> "pph", agentId |-> "", assignedToPlayerUid |-> "",
     status |-> "active", username |-> "", websiteURL |-> "", password |-> "",
     name |-> "", depositAmount |-> ""]

\* what the inputs of the Add modal can put into a field of the form
NewAccountValues(field) ==
    CASE field = "type" -> {"pph", "legal"}
      [] field = "agentId" -> {"", "g1"}
      [] field = "assignedToPlayerUid" -> {"", Uid}
      [] field = "status" -> SelectableStatuses
      [] field = "depositAmount" -> {"", "1"}
      [] OTHER -> {"", "x"}

\* an input of the Add modal: setNewAccount({...newAccount, field: value})
SetNewAccount(field, value) ==
    /\ value \in NewAccountValues(field)
    /\ newAccount[field] # value
    /\ newAccount' = [newAccount EXCEPT ![field] = value]
    /\ Record("setNewAccount", FALSE, {})
    /\ effectRan' = "none"
    /\ UNCHANGED <<storeVars, playerVars, adminVars, edits>>

\* the early returns of handleAddAccount without the test of the password
RejectedUnlessPassword(form) ==
    \/ form.agentId = ""
    \/ /\ form.type = "pph"
       /\ form.username = "" \/ form.websiteURL = ""
    \/ /\ form.type # "pph"
       /\ form.name = ""

\* the early returns of handleAddAccount: a required field is empty
Rejected(form) ==
    \/ form.agentId = ""
    \/ /\ form.type = "pph"
       /\ form.username = "" \/ form.websiteURL = "" \/ form.password = ""
    \/ /\ form.type # "pph"
       /\ form.name = ""

\* accountData of handleAddAccount
AccountData(form) ==
    [AccountDoc(form.type,
                IF form.assignedToPlayerUid # "" THEN "active" ELSE form.status,
                form.assignedToPlayerUid,
                IF form.type = "pph" THEN Undef
                ELSE ParseFloatOrZero(form.depositAmount))
       EXCEPT !.agentId = form.agentId]

\* handleAddAccount: the early returns, addDoc, the form reset, fetchAccounts
handleAddAccount(id, fail, failing) ==
    /\ id \in AccountIds \ DOMAIN accounts
    /\ Cardinality(DOMAIN accounts) < MaxAccounts
    /\ LET ok == ~Rejected(newAccount) /\ ~fail
           added == IF ok
                    THEN [a \in DOMAIN accounts \cup {id} |->
                            IF a = id THEN AccountData(newAccount) ELSE accounts[a]]
                    ELSE accounts
       IN  /\ IF ok
              THEN /\ FetchAccounts(added, entries, failing)
                   /\ newAccount' = EmptyNewAccount
              ELSE /\ failing = {}
                   /\ ~Rejected(newAccount) \/ ~fail
                   /\ UNCHANGED <<accounts, adminAccounts, newAccount>>
           /\ Record("handleAddAccount", (~ok /\ fail) \/ failing # {},
                     (IF ok THEN {<<"accounts", id>>} ELSE {})
                       \cup {<<"accounts", a>> :
                               a \in (IF ok THEN Corrected(added, entries) \ failing
                                      ELSE {})})
    /\ effectRan' = "none"
    /\ UNCHANGED <<entries, nextId, authUsers, users, playerVars, editingAccount, edits>>

\* the admin opens the Accounts page, or reloads it: the mount effect
OpenAccounts(failing) ==
    /\ Len(fetchLog) < MaxRuns
    /\ FetchAccounts(accounts, entries, failing)
    /\ fetchLog' = Append(fetchLog,
                          [stored |-> [a \in DOMAIN accounts |-> accounts[a].status],
                           issued |-> Corrected(accounts, entries),
                           failed |-> failing])
    /\ editingAccount' = Null
    /\ Record("fetchAccounts", failing # {},
              {<<"accounts", a>> : a \in Corrected(accounts, entries) \ failing})
    /\ effectRan' = "none"
    /\ UNCHANGED <<entries, nextId, authUsers, users, playerVars, edits>>

\* Edit button of a listed account: setEditingAccount(account)
ClickEditAccount(a) ==
    /\ a \in DOMAIN adminAccounts
    /\ editingAccount = Null
    /\ editingAccount' = adminAccounts[a]
    /\ Record("setEditingAccount", FALSE, {})
    /\ effectRan' = "none"
    /\ UNCHANGED <<storeVars, playerVars, adminAccounts, edits>>

\* the status selector of the edit form
SelectStatus(status) ==
    /\ editingAccount # Null
    /\ editingAccount.status # status
    /\ editingAccount' = [editingAccount EXCEPT !.status = status]
    /\ Record("setEditingAccount", FALSE, {})
    /\ effectRan' = "none"
    /\ UNCHANGED <<storeVars, playerVars, adminAccounts, edits>>

\* the type selector of the edit form
SelectType(type) ==
    /\ editingAccount # Null
    /\ editingAccount.type # type
    /\ editingAccount' = [editingAccount EXCEPT !.type = type]
    /\ Record("setEditingAccount", FALSE, {})
    /\ effectRan' = "none"
    /\ UNCHANGED <<storeVars, playerVars, adminAccounts, edits>>

\* the inputs the edit form shows for either account type: no password
EditInputs(type) ==
    IF type = "pph" THEN {"username", "websiteURL", "deal", "ip"}
    ELSE {"name", "sharePercentage", "depositAmount"}

\* an input of the edit form: setEditingAccount({...editingAccount, field: value})
TypeVariantField(field, value) ==
    /\ editingAccount # Null
    /\ field \in EditInputs(editingAccount.type)
    /\ field \notin editingAccount.fields
    /\ editingAccount' =
         [editingAccount EXCEPT
            !.fields = @ \cup {field},
            !.depositAmount = IF field = "depositAmount"
                              THEN ParseFloatOrZero(value) ELSE @]
    /\ Record("setEditingAccount", FALSE, {})
    /\ effectRan' = "none"
    /\ UNCHANGED <<storeVars, playerVars, adminAccounts, edits>>

\* updateData of handleEditAccount holds no undefined value, which updateDoc
\* rejects
Defined(editing) == VariantFields(editing.type) \subseteq editing.fields

\* the document after updateDoc(updateData): the fields of updateData are
\* merged into the stored ones
Merged(doc, editing) ==
    [doc EXCEPT !.type = editing.type,
                !.status = editing.status,
                !.fields = @ \cup VariantFields(editing.type),
                !.depositAmount = IF editing.type = "pph" THEN @
                                  ELSE editing.depositAmount]

\* handleEditAccount: updateDoc of the edited fields, then fetchAccounts
handleEditAccount(fail, failing) ==
    /\ editingAccount # Null
    /\ LET id == editingAccount.id
           ok == ~fail /\ id \in DOMAIN accounts /\ Defined(editingAccount)
           updated == IF ok
                      THEN [accounts EXCEPT ![id] = Merged(@, editingAccount)]
                      ELSE accounts
       IN  /\ IF ok
              THEN /\ FetchAccounts(updated, entries, failing)
                   /\ editingAccount' = Null
              ELSE /\ failing = {}
                   /\ UNCHANGED <<accounts, adminVars>>
           /\ Record("handleEditAccount", ~ok \/ failing # {},
                     (IF ok THEN {<<"accounts", id>>} ELSE {})
                       \cup {<<"accounts", a>> :
                               a \in (IF ok THEN Corrected(updated, entries) \ failing
                                      ELSE {})})
    /\ effectRan' = "none"
    /\ UNCHANGED <<entries, nextId, authUsers, users, playerVars, edits>>

\* the delete cascading to the entries of the account
handleDeleteAccountCascading(a, fail, failing) ==
    /\ a \in DOMAIN adminAccounts
    /\ failing = {}
    /\ LET remaining == [b \in DOMAIN accounts \ {a} |-> accounts[b]]
           kept == [i \in {j \in DOMAIN entries : entries[j].accountId # a} |->
                      entries[i]]
       IN  /\ entries' = IF fail THEN entries ELSE kept
           /\ IF fail THEN UNCHANGED <<accounts, adminAccounts>>
              ELSE FetchAccounts(remaining, kept, {})
           /\ Record("handleDeleteAccount", fail,
                     IF fail THEN {} ELSE {<<"accounts", a>>})
    /\ effectRan' = "none"
    /\ UNCHANGED <<nextId, authUsers, users, playerVars, editingAccount, edits>>

\* handleDeleteAccount, confirmed: deleteDoc, then fetchAccounts
handleDeleteAccount(a, fail, failing) ==
    /\ a \in DOMAIN adminAccounts
    /\ LET ok == ~fail
           remaining == [b \in DOMAIN accounts \ {a} |-> accounts[b]]
       IN  /\ IF ok
              THEN FetchAccounts(remaining, entries, failing)
              ELSE /\ failing = {}
                   /\ UNCHANGED <<accounts, adminAccounts>>
           /\ Record("handleDeleteAccount", ~ok \/ failing # {},
                     (IF ok THEN {<<"accounts", a>>} ELSE {})
                       \cup {<<"accounts", b>> :
                               b \in (IF ok THEN Corrected(remaining, entries) \ failing
                                      ELSE {})})
    /\ effectRan' = "none"
    /\ UNCHANGED <<entries, nextId, authUsers, users, playerVars, editingAccount, edits>>

(***************************************************************************)
(* ProtectedRoute.  useAuth() gives the signed-in identity and the user's  *)
(* document; the route passes the page and, for some routes, the role.     *)
(***************************************************************************)
Roles == {"admin", "player"}
Pages == {"AdminDashboard", "PlayerDashboard"}
NoSession == [currentUser |-> Null, userData |-> Null]

\* the identities and user documents useAuth() can hand out; a document
\* may lack the role
Sessions ==
    [currentUser : {Null} \cup [email : Emails],
     userData : {Null} \cup [role : Roles \cup {""}]]

\* userData?.role
RoleOf(userData) == IF userData = Null THEN "" ELSE userData.role

\* the component without the test of the role
ProtectedRouteAnyRole(currentUser, userData, requiredRole) ==
    IF currentUser = Null THEN "/login" ELSE "children"

\* what the component returns: a Navigate target or its children;
\* requiredRole "" stands for the prop left out
ProtectedRoute(currentUser, userData, requiredRole) ==
    IF currentUser = Null THEN "/login"
    ELSE IF requiredRole # "" /\ RoleOf(userData) # requiredRole THEN "/"
    ELSE "children"

\* a route wrapped in ProtectedRoute is entered
RenderProtectedRoute(children, requiredRole) ==
    /\ guarded' = [children |-> children, requiredRole |-> requiredRole,
                   rendered |-> ProtectedRoute(session.currentUser, session.userData,
                                               requiredRole)]
    /\ UNCHANGED session
    /\ Record("ProtectedRoute", FALSE, {})
    /\ effectRan' = "none"
    /\ UNCHANGED <<storeVars, playerVars, adminVars, edits>>

\* the auth context changes; a mounted ProtectedRoute renders again, one
\* that has navigated away is gone
AuthStateChanged(s) ==
    /\ s \in Sessions
    /\ s # session
    /\ session' = s
    /\ guarded' =
         IF guarded = Null THEN Null
         ELSE IF guarded.rendered # "children" THEN guarded
         ELSE [guarded EXCEPT !.rendered =
                 ProtectedRoute(s.currentUser, s.userData, guarded.requiredRole)]
    /\ Record("useAuth", FALSE, {})
    /\ effectRan' = "none"
    /\ UNCHANGED <<storeVars, playerVars, adminVars, edits>>

(***************************************************************************)
(* Accounts: the filter effect on [accounts, searchTerm, filter,           *)
(* agentFilter].  Text is a sequence of characters.                        *)
(***************************************************************************)
\* toLowerCase of one character
LowerChar(c) == CASE c = "A" -> "a" [] c = "B" -> "b" [] OTHER -> c

\* text.toLowerCase()
ToLowerCase(text) == [i \in 1..Len(text) |-> LowerChar(text[i])]

\* text.includes(term)
Includes(text, term) ==
    \E i \in 0..(Len(text) - Len(term)) : SubSeq(text, i + 1, i + Len(term)) = term

\* ${value} of a template literal
TemplateText(value) ==
    IF value = Undef THEN <<"u", "n", "d", "e", "f", "i", "n", "e", "d">> ELSE value

\* the search compared without lower-casing the account's text
SearchableTextAsTyped(acc) ==
    TemplateText(IF acc.type = "pph" THEN acc.username ELSE acc.name)
      \o <<" ">> \o TemplateText(acc.agentName)
      \o <<" ">> \o acc.assignedToPlayerName

\* `${type === 'pph' ? username : name} ${agentName} ${assignedToPlayerName || ''}`.toLowerCase()
SearchableText(acc) ==
    ToLowerCase(TemplateText(IF acc.type = "pph" THEN acc.username ELSE acc.name)
                  \o <<" ">> \o TemplateText(acc.agentName)
                  \o <<" ">> \o acc.assignedToPlayerName)

StatusFilters == {"active", "inactive", "unused", "locked"}
TypeFilters == {"pph", "legal"}
Filters == {"all"} \cup StatusFilters \cup TypeFilters
AgentFilters == {"all"} \cup AgentIds

\* if (searchTerm) filtered = filtered.filter(...)
FilterBySearchTerm(list, searchTerm) ==
    IF searchTerm = << >> THEN list
    ELSE LET keep == {a \in DOMAIN list :
                        Includes(SearchableText(list[a]), ToLowerCase(searchTerm))}
         IN  [a \in keep |-> list[a]]

\* if (filter !== 'all') by status or by type
FilterByFilter(list, filter) ==
    IF filter = "all" THEN list
    ELSE IF filter \in StatusFilters
         THEN [a \in {b \in DOMAIN list : list[b].status = filter} |-> list[a]]
         ELSE IF filter \in TypeFilters
              THEN [a \in {b \in DOMAIN list : list[b].type = filter} |-> list[a]]
              ELSE list

\* if (agentFilter !== 'all') filtered.filter(account => account.agentId === agentFilter)
FilterByAgent(list, agentFilter) ==
    IF agentFilter = "all" THEN list
    ELSE [a \in {b \in DOMAIN list : list[b].agentId = agentFilter} |-> list[a]]

\* the body of the effect: what it passes to setFilteredAccounts
FilteredAccounts(list, searchTerm, filter, agentFilter) ==
    FilterByAgent(FilterByFilter(FilterBySearchTerm(list, searchTerm), filter),
                  agentFilter)

\* the search box: setSearchTerm, then the effect
SetSearchTerm(term) ==
    /\ accountsList # Null
    /\ accountsList' =
         [accountsList EXCEPT
            !.searchTerm = term,
            !.filteredAccounts = FilteredAccounts(accountsList.accounts, term,
                                                  accountsList.filter,
                                                  accountsList.agentFilter)]
    /\ Record("setSearchTerm", FALSE, {})
    /\ effectRan' = "none"
    /\ UNCHANGED <<storeVars, playerVars, adminVars, edits>>

\* the filter selector and handleSummaryCardClick: setFilter, then the effect
SetFilter(filter) ==
    /\ accountsList # Null
    /\ accountsList' =
         [accountsList EXCEPT
            !.filter = filter,
            !.filteredAccounts = FilteredAccounts(accountsList.accounts,
                                                  accountsList.searchTerm, filter,
                                                  accountsList.agentFilter)]
    /\ Record("setFilter", FALSE, {})
    /\ effectRan' = "none"
    /\ UNCHANGED <<storeVars, playerVars, adminVars, edits>>

\* the agent selector: setAgentFilter, then the effect
SetAgentFilter(agentFilter) ==
    /\ accountsList # Null
    /\ accountsList' =
         [accountsList EXCEPT
            !.agentFilter = agentFilter,
            !.filteredAccounts = FilteredAccounts(accountsList.accounts,
                                                  accountsList.searchTerm,
                                                  accountsList.filter, agentFilter)]
    /\ Record("setAgentFilter", FALSE, {})
    /\ effectRan' = "none"
    /\ UNCHANGED <<storeVars, playerVars, adminVars, edits>>

(***************************************************************************)
(* Admin Dashboard: fetchStats.  The effect on dateFilter starts a call on *)
(* mount and on every change of the filter; a call sets loading, reads     *)
(* the four collections and, when its reads have returned, sets the stats  *)
(* and clears loading.  Calls in flight return in any order.  Amounts of   *)
(* money are integers; a percentage of an amount is kept in hundredths.    *)
(***************************************************************************)
DateFilters == {"today", "week", "month"}

\* getDateRange and the two where clauses on date: the entry is fetched
InRange(date, filter) ==
    \/ date = Today
    \/ date = Yesterday /\ filter \in {"week", "month"}

\* entries of the entries query for this filter
FetchedEntries(ents, filter) ==
    {i \in DOMAIN ents : InRange(ents[i].date, filter)}

\* reduce((sum, entry) => sum + (entry.profitLoss || 0), 0) over these entries
RECURSIVE SumProfitLoss(_, _)
SumProfitLoss(ents, ids) ==
    IF ids = {} THEN 0
    ELSE LET i == CHOOSE j \in ids : TRUE
         IN  OrZero(ents[i].profitLoss).n + SumProfitLoss(ents, ids \ {i})

\* accounts.filter(acc => acc.agentId === agent.id)
AgentAccounts(accs, g) == {a \in DOMAIN accs : accs[a].agentId = g}

\* every assignedToPlayerUid counted, the unassigned '' among them
AssignedPlayerUidsUnfiltered(accs, g) ==
    {accs[a].assignedToPlayerUid : a \in AgentAccounts(accs, g)}

\* [...new Set(agentAccounts.map(acc => acc.assignedToPlayerUid).filter(Boolean))]
AssignedPlayerUids(accs, g) ==
    {accs[a].assignedToPlayerUid : a \in AgentAccounts(accs, g)} \ {""}

\* an element of agentStatsData
AgentStat(g, ags, accs, ents, filter) ==
    [id |-> g,
     accountCount |-> Cardinality(AgentAccounts(accs, g)),
     playerCount |-> Cardinality(AssignedPlayerUids(accs, g)),
     totalProfit |-> SumProfitLoss(ents, {i \in FetchedEntries(ents, filter) :
                                           ents[i].accountId \in AgentAccounts(accs, g)}),
     commissionPercentage |-> OrZero(ags[g].commissionPercentage).n]

\* every account that is not inactive counted as active
ActiveAccountsNotInactive(accs) ==
    Cardinality({a \in DOMAIN accs : accs[a].status # "inactive"})

\* accounts.filter(acc => acc.status === 'active').length
ActiveAccounts(accs) ==
    Cardinality({a \in DOMAIN accs : accs[a].status = "active"})

\* what a fetchStats call for this filter passes to setStats
Stats(accs, ents, filter) ==
    [totalAccounts |-> Cardinality(DOMAIN accs),
     activeAccounts |-> ActiveAccounts(accs),
     inactiveAccounts |-> Cardinality({a \in DOMAIN accs : accs[a].status = "inactive"}),
     totalTransactions |-> Cardinality(FetchedEntries(ents, filter)),
     totalProfit |-> SumProfitLoss(ents, FetchedEntries(ents, filter))]

\* useState of the page: stats, agentStats, dateFilter, loading; shown is
\* history, the filter of the call that set the stats
InitialDash ==
    [dateFilter |-> "today", loading |-> TRUE, shown |-> "none",
     stats |-> [totalAccounts |-> 0, activeAccounts |-> 0, inactiveAccounts |-> 0,
                totalTransactions |-> 0, totalProfit |-> 0],
     agentStats |-> << >>]

\* Commission Earned of an agent card, in hundredths:
\* (agent.totalProfit * agent.commissionPercentage) / 100, with the flat
\* commission added
CommissionEarnedWithFlat(stat, ags) ==
    stat.totalProfit * stat.commissionPercentage
      + 100 * OrZero(ags[stat.id].flatCommission).n

\* Commission Earned of an agent card, in hundredths:
\* (agent.totalProfit * agent.commissionPercentage) / 100
CommissionEarned(stat, ags) == stat.totalProfit * stat.commissionPercentage

\* x.toFixed(1) of the quotient n / d, in tenths (d > 0, n >= 0)
ToFixed1(n, d) == (2 * 10 * n + d) \div (2 * d)

\* the Account Utilization card, in tenths of a percent; '...' while loading
AccountUtilization(dash) ==
    IF dash.loading THEN Str("...")
    ELSE IF dash.stats.totalAccounts > 0
         THEN Num(ToFixed1(dash.stats.activeAccounts * 100, dash.stats.totalAccounts))
         ELSE Num(0)

\* the admin opens the dashboard: mount, the effect calls fetchStats
MountDashboard ==
    /\ adminDash = Null
    /\ adminDash' = InitialDash
    /\ inflight' = <<"today">>
    /\ Record("mountDashboard", FALSE, {})
    /\ effectRan' = "none"
    /\ UNCHANGED <<storeVars, playerVars, adminVars, edits>>

\* the date filter selector: setDateFilter, the effect calls fetchStats
SetDateFilter(filter) ==
    /\ adminDash # Null
    /\ Len(inflight) < MaxInFlight
    /\ IF adminDash = Null THEN FALSE ELSE adminDash.dateFilter # filter
    /\ adminDash' = [adminDash EXCEPT !.dateFilter = filter, !.loading = TRUE]
    /\ inflight' = Append(inflight, filter)
    /\ Record("setDateFilter", FALSE, {})
    /\ effectRan' = "none"
    /\ UNCHANGED <<storeVars, playerVars, adminVars, edits>>

\* the k-th call in flight returns: its try block ends, or a read threw
FetchStatsReturns(k, fail) ==
    /\ adminDash # Null
    /\ k \in 1..Len(inflight)
    /\ LET filter == inflight[k]
       IN  adminDash' =
             IF fail THEN [adminDash EXCEPT !.loading = FALSE]
             ELSE [adminDash EXCEPT
                     !.loading = FALSE,
                     !.shown = filter,
                     !.stats = Stats(accounts, entries, filter),
                     !.agentStats = [g \in DOMAIN agents |->
                                       AgentStat(g, agents, accounts, entries, filter)]]
    /\ inflight' = [j \in 1..(Len(inflight) - 1) |->
                      IF j < k THEN inflight[j] ELSE inflight[j + 1]]
    /\ Record("fetchStats", fail, {})
    /\ effectRan' = "none"
    /\ UNCHANGED <<storeVars, playerVars, adminVars, edits>>

(***************************************************************************)
(* The player leaves the page without saving (Back / Cancel buttons).      *)
(***************************************************************************)
LeaveEntryPage ==
    /\ route \in EntryPages
    /\ NavigateDashboard(accounts, entries)
    /\ Record("navigate", FALSE, {})
    /\ UNCHANGED <<storeVars, adminVars, edits>>

(***************************************************************************)
(* The player has the application open in two browser sessions.  The       *)
(* handlers above act on the session in front; SwitchSession brings the    *)
(* other one to the front.                                                 *)
(***************************************************************************)
SwitchSession ==
    /\ route' = parked[1]
    /\ account' = parked[2]
    /\ currentEntry' = parked[3]
    /\ entriesView' = parked[4]
    /\ editingEntry' = parked[5]
    /\ playerAccounts' = parked[6]
    /\ parked' = playerVars
    /\ lastOp' = "switchSession"
    /\ lastFail' = FALSE
    /\ lastWrites' = {}
    /\ effectRan' = "none"
    /\ UNCHANGED <<storeVars, adminVars, edits, fetchLog, writeOrder, newAccount,
                   session, guarded, agents, adminDash, inflight,
                   accountsList>>

(***************************************************************************)
(* Initial states.                                                         *)
(***************************************************************************)
\* sessions before any page is opened
InitViews ==
    /\ authUsers = {}
    /\ users = {}
    /\ route = "none"
    /\ account = Null
    /\ currentEntry = InitialEntry
    /\ entriesView = NoEntries
    /\ editingEntry = Null
    /\ adminAccounts = NoEntries
    /\ editingAccount = Null
    /\ lastOp = "init"
    /\ lastFail = FALSE
    /\ lastWrites = {}
    /\ effectRan = "none"
    /\ edits = 0
    /\ fetchLog = << >>
    /\ writeOrder = [k \in 1..Cardinality(DOMAIN entries) |-> k]
    /\ parked = <<"none", Null, InitialEntry, NoEntries, Null, NoEntries>>
    /\ playerAccounts = NoEntries
    /\ newAccount = EmptyNewAccount
    /\ session = NoSession
    /\ guarded = Null
    /\ adminDash = Null
    /\ inflight = << >>

\* no page opened, the Accounts page not loaded
InitPages ==
    /\ InitViews
    /\ accountsList = Null

\* the same, over the agents collection of the player pages
InitSessions ==
    /\ InitPages
    /\ agents = Agents

(***************************************************************************)
(* Spec: one player session on account a1, every remote call succeeding.   *)
(* The account is assigned to the player and carries any status the        *)
(* admin's forms can give it.                                              *)
(***************************************************************************)
Init ==
    /\ \E status \in SelectableStatuses :
           accounts = [a \in {RouteId} |-> AccountDoc("pph", status, Uid, Undef)]
    /\ entries = NoEntries
    /\ nextId = 1
    /\ InitSessions

Next ==
    \/ \E ver \in EntryPages : OpenEntryPage(ver)
    \/ OpenDashboard
    \/ LeaveEntryPage
    \/ \E text \in DateTexts : TypeDate(text)
    \/ ToggleStatus
    \/ handleSubmit("none")

Spec == Init /\ [][Next]_vars

(***************************************************************************)
(* SpecShared: the player's session and the admin's Accounts page work on  *)
(* account a1 at the same time.                                            *)
(***************************************************************************)
InitShared ==
    /\ accounts = [a \in {RouteId} |-> AccountDoc("pph", "active", Uid, Undef)]
    /\ entries = NoEntries
    /\ nextId = 1
    /\ InitSessions

NextShared ==
    \/ \E ver \in EntryPages : OpenEntryPage(ver)
    \/ LeaveEntryPage
    \/ ToggleStatus
    \/ \E fail \in {"none", "entry", "account"} : handleSubmit(fail)
    \/ \E failing \in SUBSET AccountIds : OpenAccounts(failing)
    \/ \E a \in AccountIds : ClickEditAccount(a)
    \/ \E s \in SelectableStatuses : SelectStatus(s)
    \/ \E fail \in BOOLEAN, failing \in SUBSET AccountIds : handleEditAccount(fail, failing)

SpecShared == InitShared /\ [][NextShared]_vars

(***************************************************************************)
(* SpecWrites: the operations that issue more than one remote write.       *)
(***************************************************************************)
NextWrites ==
    \/ \E ver \in EntryPages : OpenEntryPage(ver)
    \/ LeaveEntryPage
    \/ ToggleStatus
    \/ \E fail \in {"none", "entry", "account"} : handleSubmit(fail)
    \/ \E e \in Emails, fail \in {"none", "auth", "doc"} : handleAddPlayer(e, fail)

SpecWrites == Init /\ [][NextWrites]_vars

(***************************************************************************)
(* SpecProfit: the balance inputs, the profit/loss effect and the saves.   *)
(* The store starts with up to two entries of account a1, at most one per  *)
(* date, whose stored profitLoss may disagree with its inputs (documents   *)
(* the store holds from other writers).                                    *)
(***************************************************************************)
\* a stored entry with balances 1, 1, 0, 0
SeedEntry(id, date, profitLoss) ==
    [id |-> id, accountId |-> RouteId, playerUid |-> Uid, date |-> date,
     startingBalance |-> Num(1), endingBalance |-> Num(1),
     refillAmount |-> Num(0), withdrawal |-> Num(0),
     profitLoss |-> Num(profitLoss), accountStatus |-> Str("active")]

SeedStores ==
    {NoEntries}
      \cup {(1 :> SeedEntry(1, d, p)) : d \in Dates, p \in 0..1}
      \cup {(1 :> SeedEntry(1, Today, p)) @@ (2 :> SeedEntry(2, Yesterday, q)) :
              p \in 0..1, q \in 0..1}

InitProfit ==
    /\ accounts = [a \in {RouteId} |-> AccountDoc("pph", "active", Uid, Undef)]
    /\ entries \in {st \in SeedStores : Cardinality(DOMAIN st) <= MaxEntries}
    /\ nextId = Cardinality(DOMAIN entries) + 1
    /\ InitSessions

NextProfit ==
    \/ \E ver \in EntryPages : OpenEntryPage(ver)
    \/ OpenDashboard
    \/ LeaveEntryPage
    \/ \E f \in BalanceFields, text \in InputTexts : TypeBalance(f, text)
    \/ handleSubmit("none")
    \/ \E i \in 1..MaxEntries : ClickEditEntry(i)
    \/ CancelEdit
    \/ \E f \in BalanceFields, text \in InputTexts : EditTypeBalance(f, text)
    \/ handleEditEntry(FALSE)
    \/ \E i \in 1..MaxEntries : handleDeleteEntry(i, FALSE)

SpecProfit == InitProfit /\ [][NextProfit]_vars

(***************************************************************************)
(* SpecAdmin: the admin's Accounts page over two accounts.  Each account   *)
(* starts with any stored status (or none), with or without an assigned    *)
(* player, and with or without an entry.                                   *)
(***************************************************************************)
\* an entry of account a as the store holds it
StoredEntry(id, a) ==
    [SeedEntry(id, Today, 0) EXCEPT !.accountId = a]

\* the entries collection holding one entry for each account of withEntry
EntriesFor(withEntry) ==
    IF withEntry = {} THEN NoEntries
    ELSE IF withEntry = {"a1"} THEN (1 :> StoredEntry(1, "a1"))
    ELSE IF withEntry = {"a2"} THEN (1 :> StoredEntry(1, "a2"))
    ELSE (1 :> StoredEntry(1, "a1")) @@ (2 :> StoredEntry(2, "a2"))

InitAdmin ==
    /\ \E status \in [AccountIds -> StoredStatuses],
          assigned \in [AccountIds -> {"", Uid}] :
           accounts = [a \in AccountIds |->
                         AccountDoc("pph", status[a], assigned[a], Undef)]
    /\ \E withEntry \in SUBSET AccountIds : entries = EntriesFor(withEntry)
    /\ nextId = Cardinality(DOMAIN entries) + 1
    /\ InitSessions

NextAdmin ==
    \/ \E failing \in SUBSET AccountIds : OpenAccounts(failing)
    \/ \E a \in AccountIds : ClickEditAccount(a)
    \/ \E s \in SelectableStatuses : SelectStatus(s)
    \/ \E fail \in BOOLEAN, failing \in SUBSET AccountIds : handleEditAccount(fail, failing)

SpecAdmin == InitAdmin /\ [][NextAdmin]_vars

(***************************************************************************)
(* SpecDelete: the admin adds and deletes players on the Players page and  *)
(* deletes accounts on the Accounts page, over the stores of SpecAdmin,    *)
(* while the player saves entries of account a1.                           *)
(***************************************************************************)
NextDelete ==
    \/ OpenAccounts({})
    \/ OpenEntryPage("entryV0")
    \/ handleSubmit("none")
    \/ \E a \in AccountIds, fail \in BOOLEAN, failing \in SUBSET AccountIds :
          handleDeleteAccount(a, fail, failing)
    \/ \E email \in Emails, fail \in {"none", "auth", "doc"} : handleAddPlayer(email, fail)
    \/ \E email \in Emails, fail \in BOOLEAN : handleDeletePlayer(email, fail)

SpecDelete == InitAdmin /\ [][NextDelete]_vars

(***************************************************************************)
(* SpecGuard: routes wrapped in ProtectedRoute are entered under every     *)
(* auth context.                                                           *)
(***************************************************************************)
InitGuard ==
    /\ accounts = NoEntries
    /\ entries = NoEntries
    /\ nextId = 1
    /\ InitSessions

NextGuard ==
    \/ \E s \in Sessions : AuthStateChanged(s)
    \/ \E children \in Pages, requiredRole \in Roles \cup {""} :
          RenderProtectedRoute(children, requiredRole)

SpecGuard == InitGuard /\ [][NextGuard]_vars

(***************************************************************************)
(* SpecAdd: the admin fills the form of the Add modal and submits it, on   *)
(* an empty store.                                                         *)
(***************************************************************************)
InitAdd ==
    /\ accounts = NoEntries
    /\ entries = NoEntries
    /\ nextId = 1
    /\ InitSessions

NextAdd ==
    \/ \E field \in DOMAIN EmptyNewAccount, value \in {"", "x", "1", "g1", Uid, "pph", "legal"}
                                               \cup SelectableStatuses :
          SetNewAccount(field, value)
    \/ \E id \in AccountIds, fail \in BOOLEAN : handleAddAccount(id, fail, {})
    \/ OpenAccounts({})

SpecAdd == InitAdd /\ [][NextAdd]_vars

(***************************************************************************)
(* SpecVariants: an account is added through the Add modal, which the     *)
(* admin has filled in for either type, and edited through the edit form,  *)
(* the account type included.                                              *)
(***************************************************************************)
InitVariants ==
    /\ accounts = NoEntries
    /\ entries = NoEntries
    /\ nextId = 1
    /\ authUsers = {}
    /\ users = {}
    /\ route = "none"
    /\ account = Null
    /\ currentEntry = InitialEntry
    /\ entriesView = NoEntries
    /\ editingEntry = Null
    /\ adminAccounts = NoEntries
    /\ editingAccount = Null
    /\ lastOp = "init"
    /\ lastFail = FALSE
    /\ lastWrites = {}
    /\ effectRan = "none"
    /\ edits = 0
    /\ fetchLog = << >>
    /\ writeOrder = << >>
    /\ parked = <<"none", Null, InitialEntry, NoEntries, Null, NoEntries>>
    /\ session = NoSession
    /\ guarded = Null
    /\ playerAccounts = NoEntries
    /\ agents = Agents
    /\ adminDash = Null
    /\ inflight = << >>
    /\ accountsList = Null
    /\ \E type \in {"pph", "legal"}, uid \in {"", Uid}, deposit \in {"", "1"} :
          newAccount = [EmptyNewAccount EXCEPT
                          !.type = type, !.agentId = "g1",
                          !.assignedToPlayerUid = uid,
                          !.username = "x", !.websiteURL = "x", !.password = "x",
                          !.name = "x", !.depositAmount = deposit]

NextVariants ==
    \/ \E id \in AccountIds, fail \in BOOLEAN : handleAddAccount(id, fail, {})
    \/ OpenAccounts({})
    \/ \E a \in AccountIds : ClickEditAccount(a)
    \/ \E type \in {"pph", "legal"} : SelectType(type)
    \/ \E field \in PphFields \cup LegalFields, value \in {"x", "1"} :
          TypeVariantField(field, value)
    \/ \E fail \in BOOLEAN : handleEditAccount(fail, {})

SpecVariants == InitVariants /\ [][NextVariants]_vars

(***************************************************************************)
(* SpecRefetch: the player edits and deletes listed entries on the         *)
(* dashboard and in the newer page's history while the admin may delete    *)
(* the account.                                                            *)
(***************************************************************************)
NextRefetch ==
    \/ OpenEntryPage("entryV1")
    \/ OpenDashboard
    \/ LeaveEntryPage
    \/ \E i \in 1..MaxEntries : ClickEditEntry(i)
    \/ CancelEdit
    \/ \E f \in BalanceFields, text \in InputTexts : EditTypeBalance(f, text)
    \/ \E fail \in BOOLEAN : handleEditEntry(fail)
    \/ \E i \in 1..MaxEntries, fail \in BOOLEAN : handleDeleteEntry(i, fail)
    \/ OpenAccounts({})
    \/ \E a \in AccountIds, fail \in BOOLEAN : handleDeleteAccount(a, fail, {})

SpecRefetch == InitProfit /\ [][NextRefetch]_vars

(***************************************************************************)
(* SpecAgents: the player's pages over two accounts of the player, each under  *)
(* an agent whose document exists (g1) or is missing (g2).                 *)
(***************************************************************************)
InitAgents ==
    /\ \E agent \in [AccountIds -> AgentIds] :
           accounts = [a \in AccountIds |->
                         [AccountDoc("pph", "active", Uid, Undef)
                            EXCEPT !.agentId = agent[a]]]
    /\ entries \in {st \in SeedStores : Cardinality(DOMAIN st) <= MaxEntries}
    /\ nextId = Cardinality(DOMAIN entries) + 1
    /\ InitSessions

NextAgents ==
    \/ \E ver \in EntryPages : OpenEntryPage(ver)
    \/ OpenDashboard
    \/ LeaveEntryPage
    \/ \E i \in 1..MaxEntries, fail \in BOOLEAN : handleDeleteEntry(i, fail)
    \/ OpenAccounts({})
    \/ \E a \in AccountIds, fail \in BOOLEAN : handleDeleteAccount(a, fail, {})

SpecAgents == InitAgents /\ [][NextAgents]_vars

(***************************************************************************)
(* SpecStart: the starting balance of the entry form and of the edit forms *)
(* for a pph account and for a legal account with or without a deposit.    *)
(***************************************************************************)
InitStart ==
    /\ \E doc \in {AccountDoc("pph", "active", Uid, Undef)}
                   \cup {AccountDoc("legal", "active", Uid, d) :
                           d \in {Undef} \cup {Num(n) : n \in 0..MaxVal}} :
          accounts = [a \in {RouteId} |-> doc]
    /\ entries \in {st \in SeedStores : Cardinality(DOMAIN st) <= MaxEntries}
    /\ nextId = Cardinality(DOMAIN entries) + 1
    /\ InitSessions

NextStart ==
    \/ OpenEntryPage("entryV1")
    \/ OpenDashboard
    \/ LeaveEntryPage
    \/ \E text \in InputTexts : TypeBalance("startingBalance", text)
    \/ handleSubmit("none")
    \/ \E i \in 1..MaxEntries : ClickEditEntry(i)
    \/ CancelEdit
    \/ \E text \in InputTexts : EditTypeBalance("startingBalance", text)

SpecStart == InitStart /\ [][NextStart]_vars

(***************************************************************************)
(* SpecStats: the admin dashboard over stores of up to two accounts, two   *)
(* entries and two agents: accounts unassigned or assigned, entries of     *)
(* today and yesterday with profit, loss or no profitLoss, one of them     *)
(* possibly of an account that is gone.                                    *)
(***************************************************************************)
OtherUid == "p2"

StatsAccounts ==
    LET a1s == {[AccountDoc("pph", st, uid, Undef) EXCEPT !.agentId = "g1"] :
                  st \in {"active", "inactive"}, uid \in {"", Uid}}
        a2s == {[AccountDoc("pph", st, uid, Undef) EXCEPT !.agentId = g] :
                  st \in {"active", "unused"}, uid \in {Uid, OtherUid},
                  g \in AgentIds}
    IN  {NoEntries}
          \cup {("a1" :> d1) : d1 \in a1s}
          \cup {("a1" :> d1) @@ ("a2" :> d2) : d1 \in a1s, d2 \in a2s}

StatsEntries ==
    LET e1s == {[SeedEntry(1, Today, 0) EXCEPT !.profitLoss = p] :
                  p \in {Num(1), Num(0 - 1), Undef}}
        e2s == {[SeedEntry(2, d, 0) EXCEPT !.profitLoss = p, !.accountId = a] :
                  d \in Dates, p \in {Num(1)}, a \in AccountIds}
    IN  {NoEntries}
          \cup {(1 :> e1) : e1 \in e1s}
          \cup {(1 :> e1) @@ (2 :> e2) : e1 \in e1s, e2 \in e2s}

StatsAgents ==
    LET g1s == {[Agents["g1"] EXCEPT !.commissionPercentage = c] :
                  c \in {Num(50), Undef}}
        g2 == [name |-> "Agent Two", commissionPercentage |-> Num(100),
               flatCommission |-> Undef]
    IN  {("g1" :> d) : d \in g1s} \cup {("g1" :> d) @@ ("g2" :> g2) : d \in g1s}

InitStats ==
    /\ accounts \in StatsAccounts
    /\ entries \in StatsEntries
    /\ agents \in StatsAgents
    /\ nextId = Cardinality(DOMAIN entries) + 1
    /\ InitPages

NextStats ==
    \/ MountDashboard
    \/ \E filter \in DateFilters : SetDateFilter(filter)
    \/ \E k \in 1..MaxInFlight, fail \in BOOLEAN : FetchStatsReturns(k, fail)

SpecStats == InitStats /\ [][NextStats]_vars

(***************************************************************************)
(* SpecFilter: the Accounts page with a loaded list of up to two accounts  *)
(* and every search term, filter and agent filter.                         *)
(***************************************************************************)
SearchTerms ==
    UNION {[1..n -> {"a", "B", " "}] : n \in 0..MaxTerm}

\* accounts as fetchAccounts lists them
ListedAccounts ==
    LET pphs == {[type |-> "pph", username |-> <<"A", "b">>, name |-> Undef,
                  agentName |-> <<"a">>, agentId |-> "g1",
                  assignedToPlayerName |-> player, status |-> status] :
                   player \in {<< >>, <<"B">>}, status \in {"active", "unused"}}
        legals == {[type |-> "legal", username |-> Undef, name |-> <<"b">>,
                    agentName |-> agent[2], agentId |-> agent[1],
                    assignedToPlayerName |-> <<"b", "a">>, status |-> status] :
                     agent \in {<<"g1", <<"a">> >>, <<"g2", <<"B", "b">> >>},
                     status \in {"active", "locked"}}
    IN  {NoEntries}
          \cup {("a1" :> x) : x \in pphs}
          \cup {("a1" :> x) @@ ("a2" :> y) : x \in pphs, y \in pphs \cup legals}

\* the page after its first fetchAccounts: nothing typed, no filter chosen
InitFilter ==
    /\ accounts = NoEntries
    /\ entries = NoEntries
    /\ agents = Agents
    /\ nextId = 1
    /\ InitViews
    /\ \E list \in ListedAccounts :
          accountsList = [accounts |-> list, searchTerm |-> << >>, filter |-> "all",
                          agentFilter |-> "all", filteredAccounts |-> list]

NextFilter ==
    \/ \E term \in SearchTerms : SetSearchTerm(term)
    \/ \E filter \in Filters : SetFilter(filter)
    \/ \E agentFilter \in AgentFilters : SetAgentFilter(agentFilter)

SpecFilter == InitFilter /\ [][NextFilter]_vars

(***************************************************************************)
(* SpecLegacy: the pages over an entry written under the earlier entry     *)
(* schema (startingBalance, endingBalance and profitLoss only), so its     *)
(* refillAmount and withdrawal may be absent.                              *)
(***************************************************************************)
\* an entry whose refillAmount and withdrawal are as given, possibly absent
LegacyEntry(date, refill, withdrawal) ==
    [SeedEntry(1, date, 0) EXCEPT !.refillAmount = refill, !.withdrawal = withdrawal]

InitLegacy ==
    /\ accounts = [a \in {RouteId} |-> AccountDoc("pph", "active", Uid, Undef)]
    /\ \E d \in Dates, refill \in {Num(0), Undef}, withdrawal \in {Num(0), Undef} :
           entries = (1 :> LegacyEntry(d, refill, withdrawal))
    /\ nextId = 2
    /\ InitSessions

NextLegacy ==
    \/ \E ver \in EntryPages : OpenEntryPage(ver)
    \/ OpenDashboard
    \/ LeaveEntryPage
    \/ \E f \in BalanceFields, text \in InputTexts : TypeBalance(f, text)
    \/ handleSubmit("none")
    \/ \E i \in 1..MaxEntries : ClickEditEntry(i)
    \/ CancelEdit
    \/ \E f \in BalanceFields, text \in InputTexts : EditTypeBalance(f, text)
    \/ handleEditEntry(FALSE)

SpecLegacy == InitLegacy /\ [][NextLegacy]_vars

(***************************************************************************)
(* SpecDuplicates: the newer account-entry page over a store that already  *)
(* holds two entries of account a1 dated today.                            *)
(***************************************************************************)
InitDuplicates ==
    /\ accounts = [a \in {RouteId} |-> AccountDoc("pph", "active", Uid, Undef)]
    /\ \E p \in 0..1, q \in 0..1 :
           entries = (1 :> SeedEntry(1, Today, p)) @@ (2 :> SeedEntry(2, Today, q))
    /\ nextId = 3
    /\ InitSessions

NextDuplicates ==
    \/ OpenEntryPage("entryV1")
    \/ LeaveEntryPage
    \/ \E f \in BalanceFields, text \in InputTexts : TypeBalance(f, text)
    \/ handleSubmit("none")
    \/ \E i \in 1..MaxEntries : ClickEditEntry(i)
    \/ CancelEdit
    \/ \E f \in BalanceFields, text \in InputTexts : EditTypeBalance(f, text)
    \/ handleEditEntry(FALSE)

SpecDuplicates == InitDuplicates /\ [][NextDuplicates]_vars

(***************************************************************************)
(* SpecRace: two sessions of the player on the newer account-entry page of *)
(* a legal account, whose deposit amount fills the starting balance.       *)
(***************************************************************************)
InitRace ==
    /\ accounts = [a \in {RouteId} |-> AccountDoc("legal", "active", Uid, Num(1))]
    /\ entries = NoEntries
    /\ nextId = 1
    /\ InitSessions

NextRace ==
    \/ OpenEntryPage("entryV1")
    \/ LeaveEntryPage
    \/ \E text \in InputTexts : TypeBalance("endingBalance", text)
    \/ handleSubmit("none")
    \/ SwitchSession

SpecRace == InitRace /\ [][NextRace]_vars

(***************************************************************************)
(* Properties.                                                             *)
(***************************************************************************)
SameAccountAndDate(i, j) ==
    /\ entries[i].accountId = entries[j].accountId
    /\ entries[i].date = entries[j].date

\* C3: after any sequence of loads, date changes and saves on the
\* account-entry page the store holds at most one entry per (accountId, date).
C3_OneEntryPerAccountDate ==
    \A i, j \in DOMAIN entries : SameAccountAndDate(i, j) => i = j

Flipped(status) == IF status = Str("active") THEN Str("inactive") ELSE Str("active")

\* C8: pressing the Account Status toggle turns an 'active' entry status
\* into 'inactive' and an 'inactive' one into 'active'.
C8_ToggleFlips ==
    [][ToggleStatus /\ currentEntry.accountStatus \in {Str("active"), Str("inactive")}
         => currentEntry'.accountStatus = Flipped(currentEntry.accountStatus)]_vars

\* C7: a successful handleSubmit whose entry status differed from the
\* account's stored status leaves the stored status equal to the entry's;
\* when they were equal it writes no account document.
C7_StatusPropagated ==
    [][lastOp' = "handleSubmit" /\ ~lastFail'
         => IF currentEntry.accountStatus.s # accounts[RouteId].status
            THEN accounts'[RouteId].status = currentEntry.accountStatus.s
            ELSE <<"accounts", RouteId>> \notin lastWrites']_vars

\* C9: a stored status 'locked' stays 'locked' through every step that is
\* not the admin's own edit of the account.
C9_LockedStaysLocked ==
    [][accounts[RouteId].status = "locked" /\ lastOp' # "handleEditAccount"
         => accounts'[RouteId].status = "locked"]_vars

\* C10 as stated: an operation one of whose remote writes failed has left
\* the store as it was.
C10_NoPartialCommit ==
    [][lastFail' => storeVars' = storeVars]_vars

\* C10, amended: when a remote write of handleSubmit or handleAddPlayer
\* fails the operation stops there and the user stays on the page: the write
\* that would have followed (the account status, the user document) is not
\* made, but a write completed before the failure stays (the entry, the
\* sign-in identity); the store is unchanged only when the first write fails.
C10_FailureKeepsEarlierWrites ==
    [][lastFail' /\ lastOp' \in {"handleSubmit", "handleAddPlayer"}
         => /\ playerVars' = playerVars
            /\ accounts' = accounts
            /\ users' = users
            /\ \A i \in DOMAIN entries :
                   i \in DOMAIN entries'
                     /\ (entries'[i] # entries[i] => <<"entries", i>> \in lastWrites')
            /\ lastWrites' = {} => storeVars' = storeVars]_vars

\* handleSubmit saved the entry, then its account-status update failed
C10_Witness ==
    /\ lastOp = "handleSubmit"
    /\ lastFail
    /\ lastWrites # {}
    /\ route \in EntryPages

\* the four balance inputs are numbers
AllNumeric(e) == \A f \in BalanceFields : e[f].k = "num"

\* endingBalance - startingBalance + withdrawal - refillAmount
Formula(e) ==
    Num(e.endingBalance.n - e.startingBalance.n + e.withdrawal.n - e.refillAmount.n)

\* C1: every entry document written by the newer page's handleSubmit or
\* handleEditEntry, or by PlayerDashboard's handleEditEntry, carries the
\* profitLoss its own four inputs give.
C1_SavedProfitLossConsistent ==
    [][lastOp' \in {"handleSubmit", "handleEditEntry"}
         /\ route \in {"entryV1", "dashboard"}
         => \A i \in DOMAIN entries' :
                <<"entries", i>> \in lastWrites'
                  => entries'[i].profitLoss = Formula(entries'[i])]_vars

\* C2: once the recompute effect has run on an entry whose four inputs are
\* numbers, the profit/loss in the form state is
\* endingBalance - startingBalance + withdrawal - refillAmount.
C2_EffectComputesFormula ==
    /\ effectRan = "current" /\ AllNumeric(currentEntry)
         => currentEntry.profitLoss = Formula(currentEntry)
    /\ effectRan = "editing" /\ editingEntry # Null /\ AllNumeric(editingEntry)
         => editingEntry.profitLoss = Formula(editingEntry)

\* the effect has recomputed a non-zero profit/loss of the form
C2_Witness ==
    /\ effectRan = "current"
    /\ AllNumeric(currentEntry)
    /\ currentEntry.endingBalance = Num(1)
    /\ currentEntry.startingBalance = Num(0)
    /\ currentEntry.profitLoss = Num(1)

\* the account has no entry or no assigned player
Unassignable(a) ==
    EntryCount(entries, a) = 0 \/ accounts[a].assignedToPlayerUid = ""

\* C4: in the list fetchAccounts produces, an account with zero entries or
\* no assigned player has effective status 'unused', whatever status the
\* store holds for it.
C4_UnusedWithoutEntriesOrPlayer ==
    lastOp = "fetchAccounts" /\ ~lastFail
      => \A a \in DOMAIN adminAccounts :
             Unassignable(a) => adminAccounts[a].status = "unused"

\* fetchAccounts listed as 'unused' an account stored as 'locked'
C4_Witness ==
    /\ lastOp = "fetchAccounts" /\ ~lastFail
    /\ \E a \in DOMAIN adminAccounts :
           /\ Unassignable(a)
           /\ accounts[a].status = "locked"
           /\ adminAccounts[a].status = "unused"

\* C5: fetchAccounts never writes 'unused'; the only write it issues is
\* status 'active' on an account with an entry, an assigned player and a
\* stored status 'unused' or none; every other account document stays as
\* it was.
C5_OnlyCorrectionWritten ==
    [][lastOp' = "fetchAccounts"
         => /\ DOMAIN accounts' = DOMAIN accounts
            /\ \A a \in DOMAIN accounts :
                  \/ accounts'[a] = accounts[a]
                  \/ /\ accounts'[a] = [accounts[a] EXCEPT !.status = "active"]
                     /\ ~Unassignable(a)
                     /\ accounts[a].status \in {"unused", ""}
            /\ \A a \in DOMAIN accounts :
                  <<"accounts", a>> \in lastWrites'
                    => ~Unassignable(a) /\ accounts[a].status \in {"unused", ""}]_vars

\* one run corrected an account and left a stored 'unused' of another alone
C5_Witness ==
    /\ lastOp = "fetchAccounts"
    /\ \E a, b \in DOMAIN accounts :
           /\ <<"accounts", a>> \in lastWrites
           /\ accounts[a].status = "active"
           /\ <<"accounts", b>> \notin lastWrites
           /\ accounts[b].status = "unused"

\* the runs of fetchAccounts in succession that issued a write to a
RunsCorrecting(a) == {k \in DOMAIN fetchLog : a \in fetchLog[k].issued}

\* every write of the runs in succession succeeded
RunsSucceeded == \A k \in DOMAIN fetchLog : fetchLog[k].failed = {}

ListedInStore(page, ents) ==
    IF page = "dashboard" THEN EntriesOfPlayer(ents, Uid)
    ELSE EntriesOfAccount(ents, RouteId, Uid)

\* C11: after every successful entry edit or delete the refetch leaves the
\* displayed entry list equal to the store's entries of the player (and of
\* the account), whatever the store holds.
C11_ListMatchesStoreAfterWrite ==
    [][lastOp' \in {"handleEditEntry", "handleDeleteEntry"} /\ ~lastFail'
         => entriesView' = ListedInStore(route, entries')]_vars

\* an input taken as 0 unless it is a number
ZeroUnlessNumber(v) == IF v.k = "num" THEN v.n ELSE 0

\* the formula over the four inputs, each absent, blank or non-numeric one
\* taken as 0
FormulaDefaulted(e) ==
    Num(ZeroUnlessNumber(e.endingBalance) - ZeroUnlessNumber(e.startingBalance)
          + ZeroUnlessNumber(e.withdrawal) - ZeroUnlessNumber(e.refillAmount))

\* C12: every profit/loss the pages compute is a number, with an absent,
\* blank or non-numeric input taken as 0: the one the effect of either
\* account-entry page leaves in the form or the history edit form, and the
\* one PlayerDashboard's handleEditEntry writes.
C12_ProfitLossDefaultsToZero ==
    /\ effectRan = "current" => currentEntry.profitLoss = FormulaDefaulted(currentEntry)
    /\ effectRan = "editing" /\ editingEntry # Null
         => editingEntry.profitLoss = FormulaDefaulted(editingEntry)
    /\ lastOp = "handleEditEntry" /\ ~lastFail /\ route = "dashboard"
         => \A i \in DOMAIN entries :
                <<"entries", i>> \in lastWrites
                  => entries[i].profitLoss = FormulaDefaulted(entries[i])

\* the stored entries of the account and player dated today
TodaysEntries ==
    {i \in DOMAIN entries :
       /\ entries[i].accountId = RouteId
       /\ entries[i].playerUid = Uid
       /\ entries[i].date = Today}

\* the one of ids written last
MostRecentlyWritten(ids) ==
    LET pos(i) == CHOOSE k \in DOMAIN writeOrder : writeOrder[k] = i
    IN  CHOOSE i \in ids : \A j \in ids : pos(j) <= pos(i)

\* C13: when several stored entries of the account are dated today, the one
\* fetchAccountData loads into the form is the most recently written.
C13_MostRecentTodayEntryLoaded ==
    [][lastOp' = "fetchAccountData" /\ Cardinality(TodaysEntries) >= 2
         => currentEntry'.id = MostRecentlyWritten(TodaysEntries)]_vars

\* the status the lifecycle policy projects for a stored account
Projected(a) ==
    IF Unassignable(a) THEN "unused"
    ELSE IF accounts[a].status \in {"unused", ""} THEN "active"
    ELSE accounts[a].status

\* C14: after a fetchAccounts run in which a correcting write failed, the
\* list shown holds every account with its projected status, the account
\* whose write failed as 'active'.
C14_ListShownWhenCorrectionFails ==
    lastOp = "fetchAccounts" /\ lastFail
      => /\ DOMAIN adminAccounts = DOMAIN accounts
         /\ \A a \in DOMAIN accounts : adminAccounts[a].status = Projected(a)

\* the account has an assigned player, an entry and stored status 'unused'
StoredUnusedInUse(a) ==
    /\ accounts[a].assignedToPlayerUid # ""
    /\ EntryCount(entries, a) >= 1
    /\ accounts[a].status = "unused"

\* C15 as stated: whenever no operation is running, no account with an
\* assigned player and an entry is stored as 'unused'.
C15_InUseNeverStoredUnused ==
    \A a \in DOMAIN accounts : ~StoredUnusedInUse(a)

\* C15, amended: the stored 'unused' of an account with an assigned player
\* and an entry lasts only until the admin's Accounts page next reads the
\* accounts: after every fetchAccounts run whose writes succeed (on page
\* load or after an account edit) no such account is stored as 'unused'.
C15_InUseCorrectedAtNextRead ==
    lastOp \in {"fetchAccounts", "handleEditAccount"} /\ ~lastFail
      => \A a \in DOMAIN accounts : ~StoredUnusedInUse(a)

\* a read corrected the account after the player's first entry
C15_Witness ==
    /\ lastOp = "fetchAccounts" /\ ~lastFail
    /\ <<"accounts", RouteId>> \in lastWrites
    /\ accounts[RouteId].assignedToPlayerUid # ""
    /\ EntryCount(entries, RouteId) >= 1
    /\ accounts[RouteId].status = "active"

\* C16: a session whose form was loaded before any entry of the day was
\* saved creates a new entry when it submits, whatever entries of the same
\* account and date the store holds by then; two such sessions leave two
\* entries with the same (accountId, date).
C16_SecondCreateNotPrevented ==
    [][lastOp' = "handleSubmit" /\ ~lastFail' /\ currentEntry.id = 0
         => /\ nextId \notin DOMAIN entries
            /\ DOMAIN entries' = DOMAIN entries \cup {nextId}
            /\ entries'[nextId].accountId = RouteId
            /\ entries'[nextId].date = currentEntry.date
            /\ \A i \in DOMAIN entries : entries'[i] = entries[i]]_vars

\* both sessions have submitted and the store holds two entries of today
C16_Witness ==
    /\ Cardinality(TodaysEntries) = 2
    /\ route = "dashboard"
    /\ parked[1] = "dashboard"

\* the form lacks a field its account type requires
Missing(form) ==
    \/ form.agentId = ""
    \/ form.type = "pph" /\ form.username = ""
    \/ form.type = "pph" /\ form.websiteURL = ""
    \/ form.type = "pph" /\ form.password = ""
    \/ form.type = "legal" /\ form.name = ""

\* C17: a handleAddAccount call on a form that lacks the account holder, or
\* the username, websiteURL or password of a pph account, or the name of a
\* legal account, issues no write and leaves the store as it was.
C17_NoWriteWhenFieldMissing ==
    [][(lastOp' = "handleAddAccount" /\ Missing(newAccount))
         => (lastWrites' = {} /\ storeVars' = storeVars)]_vars

\* a pph form with holder, username and websiteURL but no password was
\* submitted and nothing was written
C17_Witness ==
    /\ lastOp = "handleAddAccount"
    /\ lastWrites = {}
    /\ accounts = NoEntries
    /\ newAccount.type = "pph"
    /\ newAccount.agentId # ""
    /\ newAccount.username # ""
    /\ newAccount.websiteURL # ""
    /\ newAccount.password = ""

\* the session may see a route that requires this role ("" for none)
Admitted(s, requiredRole) ==
    /\ s.currentUser # Null
    /\ requiredRole # "" =>
         (s.userData # Null /\ RoleOf(s.userData) = requiredRole)

\* C18: the children of ProtectedRoute are on screen only under a session
\* that has the required role, if one is required; a render without a
\* session gives the redirect to /login, a render under a session whose
\* role is missing or different gives the redirect to /.
C18_ChildrenOnlyWhenAdmitted ==
    /\ (guarded # Null /\ guarded.rendered = "children")
         => Admitted(session, guarded.requiredRole)
    /\ (guarded # Null /\ lastOp = "ProtectedRoute")
         => guarded.rendered =
              IF session.currentUser = Null THEN "/login"
              ELSE IF ~Admitted(session, guarded.requiredRole) THEN "/"
              ELSE "children"

\* a signed-in player entered an admin route and was sent to /
C18_Witness ==
    /\ guarded # Null
    /\ lastOp = "ProtectedRoute"
    /\ session.currentUser # Null
    /\ RoleOf(session.userData) = "player"
    /\ guarded.requiredRole = "admin"
    /\ guarded.rendered = "/"

\* the agentName the claim gives a loaded account
AgentNameOf(doc) ==
    IF doc.agentId \in DOMAIN Agents THEN Agents[doc.agentId].name
    ELSE "Unknown Agent"

\* C19: after fetchPlayerData every account assigned to the player is in the
\* dashboard's list, under its agent's name when the agent document exists
\* and under 'Unknown Agent' when it is missing.
C19_AgentNameLoaded ==
    /\ (lastOp = "fetchPlayerData")
         => /\ DOMAIN playerAccounts = AccountsOfPlayer(accounts, Uid)
            /\ \A a \in DOMAIN playerAccounts :
                  playerAccounts[a].agentName = AgentNameOf(accounts[a])
    /\ (lastOp = "fetchAccountData" /\ RouteId \in DOMAIN accounts)
         => /\ account # Null
            /\ account.agentName = AgentNameOf(accounts[RouteId])

\* C20: every stored account document holds the fields of exactly one
\* variant: the five pph fields or the three legal fields, never fields of
\* both.
C20_OneVariantPopulated ==
    \A a \in DOMAIN accounts :
        accounts[a].fields = PphFields \/ accounts[a].fields = LegalFields

\* C21 as stated: a delete of an account or of a player changes no document
\* but the deleted one.
C21_DeleteChangesNothingElse ==
    [][(lastOp' \in {"handleDeleteAccount", "handleDeletePlayer"})
         => /\ entries' = entries
            /\ \A b \in DOMAIN accounts' : accounts'[b] = accounts[b]
            /\ \A e \in users' : e \in users]_vars

\* C21, amended: a delete of an account or of a player removes at most one
\* document and no entry; handleDeletePlayer changes no account, and
\* handleDeleteAccount changes of another account only the status, from
\* 'unused' or none to 'active', through the fetchAccounts that follows.
C21_DeleteLeavesEntries ==
    [][(lastOp' \in {"handleDeleteAccount", "handleDeletePlayer"})
         => /\ entries' = entries
            /\ authUsers' = authUsers
            /\ Cardinality(DOMAIN accounts \ DOMAIN accounts')
                 + Cardinality(users \ users') <= 1
            /\ DOMAIN accounts' \subseteq DOMAIN accounts
            /\ users' \subseteq users
            /\ lastOp' = "handleDeletePlayer" => accounts' = accounts
            /\ lastOp' = "handleDeleteAccount" => users' = users
            /\ \A b \in DOMAIN accounts' :
                  \/ accounts'[b] = accounts[b]
                  \/ /\ accounts'[b] = [accounts[b] EXCEPT !.status = "active"]
                     /\ StatusOrUnused(accounts[b]) = "unused"
                     /\ NeedsCorrection(accounts[b], EntryCount(entries, b))]_vars

\* an account with an entry was deleted and the entry is still stored
C21_Witness ==
    /\ lastOp = "handleDeleteAccount"
    /\ ~lastFail
    /\ \E i \in DOMAIN entries : entries[i].accountId \notin DOMAIN accounts

\* the starting balance the claim gives the form after a load
StartingBalanceLoaded(doc, ents) ==
    LET todays == {i \in DOMAIN ents :
                     ents[i].accountId = RouteId /\ ents[i].date = Today}
    IN  IF todays # {} THEN {ents[i].startingBalance : i \in todays}
        ELSE IF doc.type = "legal"
        THEN {IF doc.depositAmount.k = "num" THEN doc.depositAmount ELSE Num(0)}
        ELSE {Num(0)}

\* C22: after the entry page's load the form's startingBalance is that of
\* today's entry, or else the deposit of a legal account (0 if absent), or
\* else 0; and wherever the player has the entry in a form, the entry form
\* or an edit form, every number can be typed into startingBalance.
C22_StartingBalanceDefaultThenFree ==
    /\ (lastOp = "fetchAccountData" /\ route = "entryV1" /\ account # Null)
         => currentEntry.startingBalance
              \in StartingBalanceLoaded(accounts[RouteId], entries)
    /\ (route = "entryV1" /\ account # Null /\ edits < MaxEdits)
         => \A n \in 0..MaxVal : ENABLED TypeBalance("startingBalance", Numeral(n))
    /\ (route \in HistoryPages /\ editingEntry # Null /\ edits < MaxEdits)
         => \A n \in 0..MaxVal : ENABLED EditTypeBalance("startingBalance", Numeral(n))

\* the entries of the shown date range that belong to accounts of agent g
EntriesOfAgent(g) ==
    {i \in DOMAIN entries :
       /\ InRange(entries[i].date, adminDash.shown)
       /\ entries[i].accountId \in DOMAIN accounts
       /\ accounts[entries[i].accountId].agentId = g}

\* the profitLoss of an entry, 0 when the entry has none
ProfitOrZero(e) == IF e.profitLoss.k = "num" THEN e.profitLoss.n ELSE 0

\* the sum the claim gives an agent, entry by entry
ProfitOfAgent(g) ==
    LET one == IF 1 \in EntriesOfAgent(g) THEN ProfitOrZero(entries[1]) ELSE 0
        two == IF 2 \in EntriesOfAgent(g) THEN ProfitOrZero(entries[2]) ELSE 0
    IN  one + two

\* C23: for every agent the stats on screen give the number of accounts
\* under the agent, the number of distinct players assigned to them, the
\* sum of profitLoss over the fetched entries of those accounts, and as
\* commission earned that sum times the percentage over 100, without the
\* flat commission.
C23_AgentStats ==
    (adminDash # Null /\ adminDash.shown # "none")
      => /\ DOMAIN adminDash.agentStats = DOMAIN agents
         /\ \A g \in DOMAIN adminDash.agentStats :
               LET stat == adminDash.agentStats[g]
                   under == {a \in DOMAIN accounts : accounts[a].agentId = g}
               IN  /\ stat.accountCount = Cardinality(under)
                   /\ stat.playerCount =
                        Cardinality({u \in {Uid, OtherUid} :
                                       \E a \in under :
                                          accounts[a].assignedToPlayerUid = u})
                   /\ stat.totalProfit = ProfitOfAgent(g)
                   /\ CommissionEarned(stat, agents) =
                        ProfitOfAgent(g)
                          * (IF agents[g].commissionPercentage.k = "num"
                             THEN agents[g].commissionPercentage.n ELSE 0)

\* an agent with a flat commission and two accounts of two players is
\* shown with a profit and an entry without profitLoss
C23_Witness ==
    /\ adminDash # Null
    /\ adminDash.shown = "week"
    /\ "g1" \in DOMAIN adminDash.agentStats
    /\ adminDash.agentStats["g1"].accountCount = 2
    /\ adminDash.agentStats["g1"].playerCount = 2
    /\ adminDash.agentStats["g1"].totalProfit = 1
    /\ Cardinality(EntriesOfAgent("g1")) = 2
    /\ entries[1].profitLoss = Undef
    /\ agents["g1"].flatCommission = Num(1)

\* C25: the account utilization on the admin dashboard is 0 when there are
\* no accounts, and otherwise the number of active accounts over the number
\* of accounts times 100 (shown to one decimal), between 0 and 100.
C25_AccountUtilization ==
    (adminDash # Null /\ adminDash.shown # "none" /\ ~adminDash.loading)
      => LET total == Cardinality(DOMAIN accounts)
             active == Cardinality({a \in DOMAIN accounts :
                                      accounts[a].status = "active"})
             shown == AccountUtilization(adminDash)
         IN  /\ shown.k = "num"
             /\ total = 0 => shown.n = 0
             /\ total > 0 =>
                   /\ 2 * shown.n * total >= 2 * 1000 * active - total
                   /\ 2 * shown.n * total <= 2 * 1000 * active + total
                   /\ shown.n >= 0 /\ shown.n <= 1000

\* utilization is shown for a store of one active account and one that
\* is neither active nor inactive
C25_Witness ==
    /\ adminDash # Null /\ adminDash.shown # "none" /\ ~adminDash.loading
    /\ DOMAIN accounts = {"a1", "a2"}
    /\ accounts["a1"].status = "active"
    /\ accounts["a2"].status = "unused"
    /\ AccountUtilization(adminDash) = Num(500)

\* utilization is shown for a store without accounts
C25_WitnessNoAccounts ==
    /\ adminDash # Null /\ adminDash.shown # "none" /\ ~adminDash.loading
    /\ accounts = NoEntries
    /\ AccountUtilization(adminDash) = Num(0)

\* C29: when the admin changes the date filter while an earlier fetchStats
\* is in flight, a response never replaces the stats by those of a range
\* other than the selected one, and loading is false only when no fetch is
\* in flight.
C29_LatestFilterWins ==
    [][IF adminDash = Null \/ adminDash' = Null THEN TRUE
       ELSE /\ adminDash'.shown # adminDash.shown
                 => adminDash'.shown = adminDash'.dateFilter
            /\ ~adminDash'.loading => inflight' = << >>]_vars

\* the account's text that the search is matched against: display name,
\* agent name and assigned player name, in lower case
TextOf(acc) ==
    LET display == IF acc.type = "pph" THEN acc.username ELSE acc.name
        text == display \o <<" ">> \o acc.agentName \o <<" ">> \o acc.assignedToPlayerName
    IN  [i \in 1..Len(text) |->
           IF text[i] = "A" THEN "a" ELSE IF text[i] = "B" THEN "b" ELSE text[i]]

\* the three predicates of the claim, each true when its filter is not active
MatchesText(acc, term) ==
    \/ term = << >>
    \/ \E i \in 1..Len(TextOf(acc)), j \in 1..Len(TextOf(acc)) :
          /\ j - i + 1 = Len(term)
          /\ \A k \in 1..Len(term) :
                TextOf(acc)[i + k - 1]
                  = (IF term[k] = "A" THEN "a" ELSE IF term[k] = "B" THEN "b" ELSE term[k])

MatchesFilter(acc, filter) ==
    \/ filter = "all"
    \/ acc.status = filter
    \/ acc.type = filter

MatchesAgent(acc, agentFilter) ==
    agentFilter = "all" \/ acc.agentId = agentFilter

\* C24: the filtered list is the loaded accounts that satisfy the text
\* match, the status-or-type filter and the agent filter at once; it is a
\* subset of the loaded accounts, no larger than with any one filter left
\* out, and the same in whatever order the three filters are applied.
C24_FilteredAccounts ==
    accountsList # Null =>
      LET list == accountsList.accounts
          t == accountsList.searchTerm
          f == accountsList.filter
          g == accountsList.agentFilter
          shown == accountsList.filteredAccounts
          sat(tt, ff, gg) == {a \in DOMAIN list : /\ MatchesText(list[a], tt)
                                                   /\ MatchesFilter(list[a], ff)
                                                   /\ MatchesAgent(list[a], gg)}
      IN  /\ DOMAIN shown = sat(t, f, g)
          /\ \A a \in DOMAIN shown : shown[a] = list[a]
          /\ DOMAIN shown \subseteq DOMAIN list
          /\ DOMAIN shown \subseteq sat(<< >>, f, g)
          /\ DOMAIN shown \subseteq sat(t, "all", g)
          /\ DOMAIN shown \subseteq sat(t, f, "all")
          /\ shown = FilterByFilter(FilterByAgent(FilterBySearchTerm(list, t), g), f)
          /\ shown = FilterBySearchTerm(FilterByAgent(FilterByFilter(list, f), g), t)
          /\ shown = FilterByAgent(FilterBySearchTerm(FilterByFilter(list, f), t), g)
          /\ shown = FilterByFilter(FilterBySearchTerm(FilterByAgent(list, g), t), f)
          /\ shown = FilterBySearchTerm(FilterByFilter(FilterByAgent(list, g), f), t)

\* all three filters are active, the term typed in another case than the
\* account's text, and one of two loaded accounts is left
C24_Witness ==
    /\ accountsList # Null
    /\ accountsList.searchTerm = <<"a", "B">>
    /\ accountsList.filter = "active"
    /\ accountsList.agentFilter = "g1"
    /\ DOMAIN accountsList.accounts = {"a1", "a2"}
    /\ DOMAIN accountsList.filteredAccounts = {"a1"}
    /\ accountsList.accounts["a2"].status = "active"
    /\ accountsList.accounts["a2"].agentId = "g1"

\* C26: saving an account edit whose status is still the one the list
\* showed leaves the stored status as it was; an account stored as active,
\* inactive or locked and listed as 'unused' is not rewritten to 'unused'.
C26_UntouchedStatusKept ==
    [][IF editingAccount = Null THEN TRUE
       ELSE LET id == editingAccount.id
            IN  (/\ lastOp' = "handleEditAccount" /\ ~lastFail'
                 /\ id \in DOMAIN adminAccounts /\ id \in DOMAIN accounts
                 /\ editingAccount.status = adminAccounts[id].status
                 /\ accounts[id].status \in {"active", "inactive", "locked"})
                  => accounts'[id].status = accounts[id].status]_vars

\* C27: the entry form is loaded, and an entry is created or updated from
\* it, only for an account whose assignedToPlayerUid is the player's uid.
C27_OnlyAssignedAccount ==
    RouteId \in DOMAIN accounts
      => /\ (route \in EntryPages /\ account # Null)
               => accounts[RouteId].assignedToPlayerUid = Uid
         /\ (lastOp = "handleSubmit" /\ \E w \in lastWrites : w[1] = "entries")
               => accounts[RouteId].assignedToPlayerUid = Uid

\* C28: when handleSubmit has created the entry and its account-status
\* write failed, the user is still on the form and submitting again creates
\* no second entry for the account and date: it updates the one created.
C28_ResubmitUpdatesCreated ==
    [][(/\ lastOp = "handleSubmit" /\ lastFail
        /\ currentEntry.id = 0
        /\ \E w \in lastWrites : w[1] = "entries"
        /\ lastOp' = "handleSubmit")
         => /\ route \in EntryPages
            /\ DOMAIN entries' = DOMAIN entries]_vars

\* C30: handleInputChange stores the entered value: after the player sets
\* the date of the entry form to a new non-empty value, the form state
\* holds exactly that value.
C30_EnteredValueStored ==
    [][\A text \in DateTexts \ {""} :
         (TypeDate(text) /\ currentEntry.date # Str(text))
           => currentEntry'.date = Str(text)]_vars

====
